---- MODULE Spec2Model ----
(***************************************************************************)
(* Payment lifecycle engine of the billing service: invoices, orders,      *)
(* exchange rates, captured inbound transactions and the event journal,    *)
(* driven by create_invoice_v2, recalc_invoice_v2, handle_inbound_tx and   *)
(* the event consumer loop.                                                *)
(*                                                                         *)
(* Every request is a task.  A task takes one step per DB session          *)
(* (spawn_on_pool closure); the remote calls between two sessions touch no *)
(* row of the database and are folded into the neighbouring step.          *)
(***************************************************************************)
EXTENDS Integers, Sequences, FiniteSets, TLC

\* ------------------------------------------------------------------ bounds
MaxInvoices == 1
MaxOrders == 2
MaxAccounts == 2
MaxTx == 2
MaxTasks == 2
MaxTime == 1
MaxRateRows == 3
MaxJournal == 3
MaxRequests == 3
MaxQueue == 2
MaxClock == 4
MaxFees == 4

\* Option::None of every optional column and argument
Null == 0 - 1

InvoiceIds == 1..MaxInvoices
OrderIds == 1..MaxOrders
\* accounts cached in the accounts table; account MaxAccounts + 1 is unknown
Accounts == 1..MaxAccounts
TxIds == 1..MaxTx
Tasks == 1..MaxTasks

\* ---------------------------------------------------------------- currency
Currencies == {"EUR", "USD", "STQ", "ETH"}

IsFiat(c) == c \in {"EUR", "USD"}

\* minor units per super-unit (cents per EUR; the 10^18 of wei is scaled
\* down to 10^3 to stay inside the checker's integers)
MinorUnits(c) == IF IsFiat(c) THEN 100 ELSE 1000

\* BigDecimal values are held as integer multiples of 1 / BdOne
BdOne == 10000

\* Amount::to_super_unit
ToSuperUnit(amount, c) == (amount * BdOne) \div MinorUnits(c)

\* Amount::from_super_unit: the minor-unit integer nearest to the decimal,
\* ties to even
FromSuperUnit(c, bd) ==
    LET n == bd * MinorUnits(c)
        q == n \div BdOne
        r == n % BdOne
    IN  IF 2 * r < BdOne THEN q
        ELSE IF 2 * r > BdOne THEN q + 1
        ELSE IF q % 2 = 0 THEN q ELSE q + 1

\* BigDecimal division by a rate
BdDiv(bd, rate) == bd \div rate

\* account_service: the currency of a pooled account of the crypto PSP
AccountCurrency(a) == IF a % 2 = 1 THEN "STQ" ELSE "ETH"

\* accounts.wallet_address (unique); address 0 belongs to no account
WalletAddress(a) == a + 100
WalletAddresses == {WalletAddress(a) : a \in Accounts}

\* accounts_repo.get_by_wallet_address
GetByWalletAddress(addr) ==
    IF addr \in WalletAddresses
    THEN CHOOSE a \in Accounts : WalletAddress(a) = addr
    ELSE Null

\* config.payment_expiry.{fiat_timeout_min, crypto_timeout_min}
FiatTimeout == 1
CryptoTimeout == 2

\* quotes the crypto PSP may answer with (buyer_super = seller_super / rate)
RateValues == {1, 2}

\* ------------------------------------------------------------------- state
VARIABLES
    now,        \* wall clock (Utc::now)
    invoices,   \* invoices_v2 rows, by id
    orders,     \* orders rows, by id
    rates,      \* order_exchange_rates rows of each order, oldest first
    txs,        \* captured inbound transactions, unique on (account, tx)
    intents,    \* payment_intent rows joined with payment_intents_invoices
    journal,    \* event_store rows, oldest first
    task,       \* the requests in flight
    reply,      \* the answer to the request that finished last
    requests,   \* the number of requests received
    worker,     \* the event consumer loop of the process
    config,     \* static configuration of the deployment
    fees,       \* fees rows, oldest first
    calc        \* the function call looked at on its own: arguments, value

vars ==
    <<now, invoices, orders, rates, txs, intents, journal, task, reply,
      requests, worker, config, fees, calc>>

NoInvoice ==
    [exists |-> FALSE, buyer_currency |-> "none", account_id |-> Null,
     amount_captured |-> 0, final_amount_paid |-> Null,
     final_cashback_amount |-> Null, paid_at |-> Null, expired |-> FALSE]

NoOrder ==
    [exists |-> FALSE, invoice_id |-> Null, seller_currency |-> "none",
     total_amount |-> 0, cashback_amount |-> 0]

IdleTask ==
    [op |-> "none", pc |-> "done", path |-> "none", inv |-> Null,
     buyer |-> "none", account |-> Null, intent |-> Null,
     priced |-> <<>>, news |-> <<>>]

\* config.payments: absent, or present with its sign_public_key
Configs ==
    {[payments |-> FALSE, sign_public_key |-> "none"],
     [payments |-> TRUE, sign_public_key |-> "psp"],
     [payments |-> TRUE, sign_public_key |-> "garbage"]}

\* a mutant of the check: the integration is taken as configured
AssumeConfigured(c) == TRUE

\* dynamic_context.payments_client (with account_service) and
\* static_context.config.payments are Some
PaymentsConfigured(c) == c.payments

NoReply == [op |-> "none", path |-> "none", result |-> "none"]

\* no function call is looked at
NoCalc == [fn |-> "none"]

IdleWorker == [pc |-> "idle", entry |-> 0, result |-> "none"]

\* the deployment after construction, on an empty database
Boot ==
    /\ now = 0
    /\ invoices = [i \in InvoiceIds |-> NoInvoice]
    /\ orders = [o \in OrderIds |-> NoOrder]
    /\ rates = [o \in OrderIds |-> <<>>]
    /\ txs = {}
    /\ intents = {}
    /\ journal = <<>>
    /\ task = [t \in Tasks |-> IdleTask]
    /\ reply = NoReply
    /\ requests = 0
    /\ worker = IdleWorker
    /\ config \in Configs
    /\ fees = <<>>

Init == Boot /\ calc = NoCalc

\* ----------------------------------------------------------------- helpers
RECURSIVE SumSeq(_)
SumSeq(s) == IF s = <<>> THEN 0 ELSE Head(s) + SumSeq(Tail(s))

\* a task that is not in flight takes the next request
Free(t) == task[t].pc = "done" /\ requests < MaxRequests

\* the request of task t goes on as tk
Go(t, tk) ==
    /\ task' = [task EXCEPT ![t] = tk]
    /\ requests' = IF Free(t) THEN requests + 1 ELSE requests
    /\ UNCHANGED reply

\* the request of task t is answered
Done(t, op, path, result) ==
    /\ task' = [task EXCEPT ![t] = IdleTask]
    /\ requests' = IF Free(t) THEN requests + 1 ELSE requests
    /\ reply' = [op |-> op, path |-> path, result |-> result]

\* ------------------------------------------------------------ repositories
\* orders_repo.get_many_by_invoice_id
OrdersOf(i) == {o \in OrderIds : orders[o].exists /\ orders[o].invoice_id = i}

RECURSIVE SetToSeq(_)
SetToSeq(S) ==
    IF S = {} THEN <<>>
    ELSE LET m == CHOOSE x \in S : \A y \in S : x <= y
         IN  <<m>> \o SetToSeq(S \ {m})

\* rows of an order with status Active
ActiveRows(rs) == {k \in 1..Len(rs) : rs[k].status = "Active"}

NoRate == [exchange_id |-> Null, rate |-> 0, status |-> "None"]

\* rates_repo.get_active_rate_for_order: Option<RawOrderExchangeRate>
GetActiveRate(rs) ==
    IF ActiveRows(rs) = {} THEN NoRate
    ELSE rs[CHOOSE k \in ActiveRows(rs) : \A j \in ActiveRows(rs) : k <= j]

\* a mutant of the insert: the row is stored, the current one is kept Active
PlainInsertRate(rs, new) ==
    Append(rs, [exchange_id |-> new.exchange_id, rate |-> new.rate,
                status |-> "Active"])

\* rates_repo.add_new_active_rate: expires the current Active row and stores
\* the new one as Active, in one statement
AddNewActiveRate(rs, new) ==
    Append([k \in 1..Len(rs) |-> [rs[k] EXCEPT !.status = "Expired"]],
           [exchange_id |-> new.exchange_id, rate |-> new.rate,
            status |-> "Active"])

\* invoices_repo.get_by_account_id: the invoices linked to the account
LinkedInvoices(a) ==
    {i \in InvoiceIds : invoices[i].exists /\ invoices[i].account_id = a}

\* event_store_repo.add_event / add_scheduled_event
NewEntry(kind, ref, scheduled_for) ==
    [kind |-> kind, ref |-> ref, scheduled_for |-> scheduled_for,
     status |-> "Pending", attempts |-> 0, lease_until |-> Null]

\* the entries of journal j that carry the event
EventsIn(j, kind, ref) ==
    {k \in 1..Len(j) : j[k].kind = kind /\ j[k].ref = ref}

EventsOf(kind, ref) == EventsIn(journal, kind, ref)

\* ---------------------------------------------------------- pricing engine
\* the rate calculate_invoice_price applies to an order: its Active row
HasRate(o) == GetActiveRate(rates[o]).status = "Active"

\* InvoiceDump.has_missing_rates
HasMissingRates(i) ==
    \E o \in OrdersOf(i) :
        ~HasRate(o) /\ orders[o].seller_currency # invoices[i].buyer_currency

\* an order's price in buyer super-units
OrderPrice(o) ==
    LET super == ToSuperUnit(orders[o].total_amount, orders[o].seller_currency)
    IN  IF HasRate(o) THEN BdDiv(super, GetActiveRate(rates[o]).rate)
        ELSE IF orders[o].seller_currency = invoices[orders[o].invoice_id].buyer_currency
             THEN super
             ELSE 0

OrderCashback(o) ==
    LET super == ToSuperUnit(orders[o].cashback_amount, orders[o].seller_currency)
    IN  IF HasRate(o) THEN BdDiv(super, GetActiveRate(rates[o]).rate) ELSE super

\* InvoiceDump.total_price
TotalPrice(i) == SumSeq([k \in 1..Cardinality(OrdersOf(i)) |->
                            OrderPrice(SetToSeq(OrdersOf(i))[k])])

\* InvoiceDump.total_cashback
TotalCashback(i) == SumSeq([k \in 1..Cardinality(OrdersOf(i)) |->
                               OrderCashback(SetToSeq(OrdersOf(i))[k])])

\* -------------------------------------------------------- create_invoice_v2
\* CreateOrderV2: total_amount in seller super-units and product_cashback,
\* a fraction of it (Null: none), both decimals in units of 1 / BdOne
OrderInputs ==
    [id : OrderIds, currency : Currencies, total_amount : {BdOne},
     product_cashback : {Null, 5000}]

\* the order lists of the requests: one order, or two (the same order id
\* twice included)
CreateOrders ==
    {<<x>> : x \in {y \in OrderInputs : y.id = 1 /\ y.product_cashback # Null}}
    \cup {<<x, y>> : x \in {z \in OrderInputs : z.id = 1 /\ z.currency = "STQ"
                                                /\ z.product_cashback # Null},
                     y \in {z \in OrderInputs : z.currency # "STQ"
                                                /\ z.product_cashback = Null}}

\* the buyer currencies of the requests
BuyerCurrencies == {"EUR", "STQ"}

\* NewOrder of a CreateOrderV2
NewOrder(c) ==
    [id |-> c.id, seller_currency |-> c.currency,
     total_amount |-> FromSuperUnit(c.currency, c.total_amount),
     cashback_amount |->
         IF c.product_cashback = Null THEN 0
         ELSE FromSuperUnit(c.currency,
                            (c.total_amount * c.product_cashback) \div BdOne)]

\* a mutant of the pricing: two fiat currencies are not compared
PricingAnyFiat(buyer, seller) ==
    IF IsFiat(buyer) /\ IsFiat(seller) THEN "dummy"
    ELSE IF ~IsFiat(buyer) /\ ~IsFiat(seller)
    THEN IF buyer = seller THEN "dummy" ELSE "psp"
    ELSE "Internal"

\* how an order is priced at creation: "dummy" (rate 1, no exchange id),
\* "psp" (get_rate of the crypto PSP), or the error kind
PricingOf(buyer, seller) ==
    IF IsFiat(buyer) /\ IsFiat(seller)
    THEN IF buyer # seller THEN "Validation" ELSE "dummy"
    ELSE IF ~IsFiat(buyer) /\ ~IsFiat(seller)
    THEN IF buyer = seller THEN "dummy" ELSE "psp"
    ELSE "Internal"

\* the error of the first order that cannot be priced; "none" if all can
RECURSIVE PricingError(_, _)
PricingError(buyer, ords) ==
    IF ords = <<>> THEN "none"
    ELSE IF PricingOf(buyer, Head(ords).currency) \in {"Validation", "Internal"}
    THEN PricingOf(buyer, Head(ords).currency)
    ELSE PricingError(buyer, Tail(ords))

\* a mutant of the dummy rate: an order the PSP is not asked about gets
\* rate 2
PricedHalf(buyer, ords, quote) ==
    [k \in 1..Len(ords) |->
        LET n == NewOrder(ords[k])
            psp == PricingOf(buyer, ords[k].currency) = "psp"
        IN  [id |-> n.id, seller_currency |-> n.seller_currency,
             total_amount |-> n.total_amount,
             cashback_amount |-> n.cashback_amount,
             exchange_id |-> IF psp THEN quote[k] ELSE Null,
             rate |-> IF psp THEN quote[k] ELSE 2]]

\* the (new_order, exchange_id, exchange_rate) triples the PSP answers allow:
\* quote[k] is the PSP's rate for the k-th order
Priced(buyer, ords, quote) ==
    [k \in 1..Len(ords) |->
        LET n == NewOrder(ords[k])
            psp == PricingOf(buyer, ords[k].currency) = "psp"
        IN  [id |-> n.id, seller_currency |-> n.seller_currency,
             total_amount |-> n.total_amount,
             cashback_amount |-> n.cashback_amount,
             exchange_id |-> IF psp THEN quote[k] ELSE Null,
             rate |-> IF psp THEN quote[k] ELSE 1]]

\* payment_intent_create_params: the exchanged prices of the orders, summed
\* as decimals
RECURSIVE ExchangedAmount(_)
ExchangedAmount(priced) ==
    IF priced = <<>> THEN 0
    ELSE BdDiv(Head(priced).total_amount * BdOne, Head(priced).rate)
         + ExchangedAmount(Tail(priced))

\* u64::MAX, scaled down as the amounts are
U64Max == 1000

\* BigDecimal::to_u64: the integer part; None (Null) above u64::MAX
ToU64(bd) == IF bd \div BdOne > U64Max THEN Null ELSE bd \div BdOne

\* a mutant of the sum: the first order only
IntentAmountFirst(priced) == ToU64(ExchangedAmount(<<Head(priced)>>))

\* the amount of the card payment intent: the sum, to_u64
IntentAmount(priced) == ToU64(ExchangedAmount(priced))

\* payment_intent_create_params: the StripeClientNewPaymentIntent, or Null
\* for the Internal error of an amount that does not convert
PaymentIntentCreateParams(priced, buyer_currency) ==
    IF IntentAmount(priced) = Null THEN Null
    ELSE [allowed_source_types |-> <<"Card">>,
          amount |-> IntentAmount(priced),
          currency |-> buyer_currency,
          capture_method |-> "Automatic"]

\* get_or_create_free_pooled_account: pooled accounts of the currency that
\* no invoice is linked to
FreeAccounts(c) ==
    {a \in Accounts : AccountCurrency(a) = c /\ LinkedInvoices(a) = {}}

\* create_invoice_v2 up to the DB session: the configuration check, the
\* pricing of every order, then the payment intent (fiat buyer) or the
\* pooled account (crypto buyer)
CreatePrepare(t, id, buyer, ords) ==
    /\ Free(t)
    /\ UNCHANGED <<now, invoices, orders, rates, txs, intents, journal,
                   worker, config, fees, calc>>
    /\ IF ~PaymentsConfigured(config)
       THEN Done(t, "create", "none", "Internal")
       ELSE IF PricingError(buyer, ords) # "none"
       THEN Done(t, "create", "none", PricingError(buyer, ords))
       ELSE \E quote \in [1..Len(ords) -> RateValues], remote_ok \in BOOLEAN :
              \* orders the PSP is not asked about carry no quote
              /\ \A k \in 1..Len(ords) :
                    PricingOf(buyer, ords[k].currency) # "psp" => quote[k] = 1
              /\ IF ~remote_ok
                 THEN \* get_rate, create_payment_intent or the account
                      \* service answered with an error
                      Done(t, "create", "none", "Internal")
                 ELSE IF IsFiat(buyer)
                         /\ IntentAmount(Priced(buyer, ords, quote)) = Null
                 THEN Done(t, "create", "none", "Internal")
                 ELSE IF IsFiat(buyer)
                 THEN Go(t, [IdleTask EXCEPT !.op = "create", !.pc = "commit",
                              !.inv = id, !.buyer = buyer, !.intent = id,
                              !.priced = Priced(buyer, ords, quote)])
                 ELSE \E a \in FreeAccounts(buyer) :
                        Go(t, [IdleTask EXCEPT !.op = "create", !.pc = "commit",
                                 !.inv = id, !.buyer = buyer, !.account = a,
                                 !.priced = Priced(buyer, ords, quote)])

OrderIdsOf(priced) == {priced[k].id : k \in 1..Len(priced)}

\* the inserts of the transaction meet no primary-key conflict
CreateTxOk(tk) ==
    /\ ~invoices[tk.inv].exists
    /\ tk.intent = Null \/ ~\E p \in intents : p.id = tk.intent
    /\ Cardinality(OrderIdsOf(tk.priced)) = Len(tk.priced)
    /\ \A o \in OrderIdsOf(tk.priced) : ~orders[o].exists

PricedRow(priced, o) == priced[CHOOSE k \in 1..Len(priced) : priced[k].id = o]

\* a mutant of the choice: the timeouts of the two flows are exchanged
SwappedTimeout(new_payment_intent) ==
    IF new_payment_intent = Null THEN FiatTimeout ELSE CryptoTimeout

\* expiry_timeout: the crypto timeout without a payment intent, the fiat
\* timeout with one
ExpiryTimeout(new_payment_intent) ==
    IF new_payment_intent = Null THEN CryptoTimeout ELSE FiatTimeout

\* the DB session of create_invoice_v2: add_scheduled_event, then the
\* transaction that inserts the invoice, the payment intent and its link,
\* the orders and their rates.  db_ok: the statements themselves succeed.
CreateCommit(t, event_ok, db_ok) ==
    LET tk == task[t]
        entry == NewEntry("PaymentExpired", tk.inv,
                          now + ExpiryTimeout(tk.intent))
    IN
    /\ tk.op = "create" /\ tk.pc = "commit"
    /\ Len(journal) < MaxJournal
    /\ UNCHANGED <<now, txs, worker, config, fees, calc>>
    /\ IF ~event_ok
       THEN /\ Done(t, "create", "none", "Internal")
            /\ UNCHANGED <<invoices, orders, rates, intents, journal>>
       ELSE /\ journal' = Append(journal, entry)
            /\ IF db_ok /\ CreateTxOk(tk)
               THEN /\ invoices' = [invoices EXCEPT ![tk.inv] =
                          [NoInvoice EXCEPT !.exists = TRUE,
                               !.buyer_currency = tk.buyer,
                               !.account_id = tk.account]]
                    /\ intents' = IF tk.intent = Null THEN intents
                                  ELSE intents \cup
                                       {[id |-> tk.intent, invoice_id |-> tk.inv,
                                         amount |->
                                             PaymentIntentCreateParams(
                                                 tk.priced, tk.buyer).amount,
                                         currency |->
                                             PaymentIntentCreateParams(
                                                 tk.priced, tk.buyer).currency,
                                         status |-> "Open"]}
                    /\ orders' = [o \in OrderIds |->
                          IF o \in OrderIdsOf(tk.priced)
                          THEN [exists |-> TRUE, invoice_id |-> tk.inv,
                                seller_currency |-> PricedRow(tk.priced, o).seller_currency,
                                total_amount |-> PricedRow(tk.priced, o).total_amount,
                                cashback_amount |-> PricedRow(tk.priced, o).cashback_amount]
                          ELSE orders[o]]
                    /\ rates' = [o \in OrderIds |->
                          IF o \in OrderIdsOf(tk.priced)
                          THEN AddNewActiveRate(rates[o], PricedRow(tk.priced, o))
                          ELSE rates[o]]
                    /\ Done(t, "create", "none", "ok")
               ELSE /\ UNCHANGED <<invoices, orders, rates, intents>>
                    /\ Done(t, "create", "none", "Internal")

\* the clock
AdvanceTime ==
    /\ now < MaxTime
    /\ now' = now + 1
    /\ UNCHANGED <<invoices, orders, rates, txs, intents, journal, task,
                   reply, requests, worker, config, fees, calc>>

\* -------------------------------------------------------- handle_inbound_tx
\* PaymentsCallback as it arrives: account_id (Null: absent), address,
\* transaction_id and the amount string (Null: not a number).  The raw body
\* of the request is the callback itself.
Callbacks ==
    [account_id : Accounts \cup {MaxAccounts + 1}, address : {0},
     tx : TxIds, amount : {500, Null}]
    \cup [account_id : {Null}, address : {WalletAddress(1), 0},
          tx : TxIds, amount : {500, Null}]

\* a body that differs from the one that was signed
Mutated(cb) == [cb EXCEPT !.tx = 0]

\* the Sign header: well-formed or not, the key that made it and the body it
\* was made over
Sign(kind, cb) ==
    [wf |-> kind # "malformed",
     key |-> IF kind = "wrongkey" THEN "other" ELSE "psp",
     over |-> IF kind = "mutated" THEN Mutated(cb) ELSE cb]

SignKinds == {"good", "mutated", "wrongkey", "malformed"}

\* the deliveries: every callback correctly signed, and the callbacks of
\* the first transaction with each of the bad signatures
Deliveries ==
    {d \in Callbacks \X SignKinds :
        d[2] = "good" \/ (d[1].tx = 1 /\ d[1].amount # Null)}

\* a mutant of the check: every signature is accepted
AcceptAnySign(sign_public_key, signature, body) == TRUE

\* check_ture_sign: the public key parses, the signature parses, and the
\* signature verifies against the hash of the body under the key
CheckTureSign(sign_public_key, signature, body) ==
    /\ sign_public_key # "garbage"
    /\ signature.wf
    /\ signature.key = sign_public_key
    /\ signature.over = body

\* invoices_repo.get_by_account_id: Option<RawInvoice>
GetByAccountId(a) ==
    IF LinkedInvoices(a) = {} THEN Null
    ELSE CHOOSE i \in LinkedInvoices(a) : \A j \in LinkedInvoices(a) : i <= j

\* the account the callback is about: account_id, else the account of the
\* wallet address (Null: none)
ResolveAccount(cb) ==
    IF cb.account_id # Null THEN cb.account_id
    ELSE GetByWalletAddress(cb.address)

\* the checks of the first DB session, in the order they are made
CaptureCheck(cb, signature) ==
    IF ~CheckTureSign(config.sign_public_key, signature, cb) THEN "Forbidden"
    ELSE IF ResolveAccount(cb) = Null THEN "NotFound"
    ELSE IF cb.amount = Null THEN "Internal"
    ELSE IF GetByAccountId(ResolveAccount(cb)) = Null THEN "NotFound"
    ELSE "ok"

\* invoices_repo.increase_amount_captured: the unique (account, tx) key
Captured(a, tx) == \E x \in txs : x.account = a /\ x.tx = tx

\* a mutant of the key: every delivery is counted
CaptureAgain(a, tx) == "ok"

IncreaseAmountCaptured(a, tx) ==
    IF Captured(a, tx) THEN "Constraints" ELSE "ok"

\* a mutant of the recovery: the constraint violation is propagated
PropagateCaptureError(e) == "Internal"

\* the or_else of increase_amount_captured: a Constraints error is answered
\* by reading the invoice of the account, every other error propagates
CaptureRecovery(e) ==
    IF e = "Constraints" THEN "AlreadyApplied" ELSE "Internal"

\* a mutant of the final then: every error is passed on
KeepError(kind) == kind

\* the final then of handle_inbound_tx: NotFound becomes success
Swallow(kind) == IF kind = "NotFound" THEN "ok" ELSE kind

\* a mutant of the match: the recalc is done for every invoice
AlwaysRecalc(inv) == FALSE

\* the match on invoice.paid_at after the first session: "Skip recalc if the
\* invoice is paid"
SkipRecalc(inv) == inv.paid_at # Null

\* the first DB session of handle_inbound_tx and the final then, as far as
\* the request is decided by them: the answer ("go": the request goes on
\* with the invoice inv), the path taken and the rows written
CaptureSession(cb, signature) ==
    LET a == ResolveAccount(cb)
        i == GetByAccountId(a)
        check == CaptureCheck(cb, signature)
        e == IncreaseAmountCaptured(a, cb.tx)
        path == IF e = "ok" THEN "Applied" ELSE CaptureRecovery(e)
        same == [result |-> "Internal", path |-> "none", inv |-> Null,
                 invoices |-> invoices, txs |-> txs]
    IN  IF ~PaymentsConfigured(config) THEN same
        ELSE IF check # "ok" THEN [same EXCEPT !.result = Swallow(check)]
        ELSE IF path = "Internal"
        THEN [same EXCEPT !.result = Swallow("Internal")]
        ELSE [result |-> IF SkipRecalc(invoices[i]) THEN "ok" ELSE "go",
              path |-> path,
              inv |-> i,
              invoices |-> IF path = "Applied"
                           THEN [invoices EXCEPT ![i].amount_captured =
                                    @ + cb.amount]
                           ELSE invoices,
              txs |-> IF path = "Applied"
                      THEN txs \cup {[account |-> a, tx |-> cb.tx,
                                      amount |-> cb.amount]}
                      ELSE txs]

\* handle_inbound_tx up to the end of its first DB session
HitCapture(t, cb, signature) ==
    \E s \in {CaptureSession(cb, signature)} :
    /\ Free(t)
    /\ UNCHANGED <<now, orders, rates, intents, journal, worker, config, fees, calc>>
    /\ invoices' = s.invoices
    /\ txs' = s.txs
    /\ IF s.result = "go"
       THEN Go(t, [IdleTask EXCEPT !.op = "hit", !.pc = "load",
                        !.inv = s.inv, !.path = s.path,
                        !.buyer = invoices[s.inv].buyer_currency])
       ELSE Done(t, "hit", s.path, s.result)

\* ------------------------------------------------------------ rate refresh
\* new rates that are on their way to the table of order o
Pending(o) ==
    Cardinality({t \in Tasks :
                    \E k \in 1..Len(task[t].news) : task[t].news[k].order_id = o})

\* what reserve_or_refresh_rate may come back with for one order, given the
\* Active row that was read: 0 stands for None (nothing to store), a rate
\* value for a NewOrderExchangeRate with that quote
RateAnswers(o, buyer) ==
    LET r == GetActiveRate(rates[o])
    IN  IF r.status = "None"
        THEN IF orders[o].seller_currency = buyer THEN {1} ELSE RateValues
        ELSE IF r.exchange_id = Null THEN {0}
        ELSE IF Len(rates[o]) + Pending(o) < MaxRateRows
        THEN {0} \cup (RateValues \ {r.rate})
        ELSE {0}

\* the NewOrderExchangeRate of an answer
NewRate(o, buyer, q) ==
    [order_id |-> o,
     exchange_id |-> IF GetActiveRate(rates[o]).status = "None"
                        /\ orders[o].seller_currency = buyer
                     THEN Null ELSE q,
     rate |-> q]

RECURSIVE CollectRates(_, _, _)
CollectRates(os, buyer, f) ==
    IF os = <<>> THEN <<>>
    ELSE IF f[Head(os)] = 0 THEN CollectRates(Tail(os), buyer, f)
    ELSE <<NewRate(Head(os), buyer, f[Head(os)])>>
         \o CollectRates(Tail(os), buyer, f)

\* refresh_rates over get_order_active_rates: the rates to store, rates that
\* remained the same filtered out
RefreshRates(i, buyer, f) == CollectRates(SetToSeq(OrdersOf(i)), buyer, f)

\* the answers of the PSP to one refresh_rates
Answers(i, buyer) ==
    {f \in [OrdersOf(i) -> RateValues \cup {0}] :
        \A o \in OrdersOf(i) : f[o] \in RateAnswers(o, buyer)}

\* second DB session of handle_inbound_tx (get_order_active_rates), then
\* to_ture_currency and refresh_rates
HitLoad(t, remote_ok) ==
    LET tk == task[t]
    IN
    /\ tk.op = "hit" /\ tk.pc = "load"
    /\ UNCHANGED <<now, invoices, orders, rates, txs, intents, journal,
                   worker, config, fees, calc>>
    /\ IF IsFiat(tk.buyer) \/ ~remote_ok
       THEN Done(t, "hit", tk.path, "Internal")
       ELSE \E f \in Answers(tk.inv, tk.buyer) :
              Go(t, [tk EXCEPT !.pc = "save",
                             !.news = RefreshRates(tk.inv, tk.buyer, f)])

\* a mutant of the store: the rows are inserted as they come
InsertNewRates(rs, news, k) ==
    [o \in OrderIds |->
        IF \E j \in 1..k : news[j].order_id = o
        THEN PlainInsertRate(rs[o],
                 news[CHOOSE j \in 1..k : news[j].order_id = o])
        ELSE rs[o]]

\* the rate table after the first k of the new rates went through
\* add_new_active_rate, one after the other
StoreNewRates(rs, news, k) ==
    [o \in OrderIds |->
        IF \E j \in 1..k : news[j].order_id = o
        THEN AddNewActiveRate(rs[o],
                 news[CHOOSE j \in 1..k : news[j].order_id = o])
        ELSE rs[o]]

\* the DB session that saves new and updated rates (no transaction): the
\* first k rates are stored; k < Len(news) when the next insert fails
SaveRates(t, k) ==
    LET tk == task[t]
    IN
    /\ tk.pc = "save"
    /\ k \in 0..Len(tk.news)
    /\ UNCHANGED <<now, invoices, orders, txs, intents, journal, worker,
                   config, fees, calc>>
    /\ rates' = StoreNewRates(rates, tk.news, k)
    /\ IF k < Len(tk.news)
       THEN Done(t, tk.op, tk.path, "Internal")
       ELSE Go(t, [tk EXCEPT !.pc = "detect",
                                                   !.news = <<>>])

\* ----------------------------------------------------------- paid detection
\* a mutant of the check: the invoice is taken as unpaid
NeverPaid(inv) == FALSE

\* "Do not update anything in DB if the invoice is already marked as paid"
AlreadyPaid(inv) == inv.paid_at # Null

\* a mutant of the guard: the captured amount is not compared
HasAllRates(i) == ~HasMissingRates(i)

\* has_become_paid
HasBecomePaid(i) ==
    /\ ~HasMissingRates(i)
    /\ ToSuperUnit(invoices[i].amount_captured, invoices[i].buyer_currency)
         >= TotalPrice(i)

\* a mutant of the settlement: the price is taken from the oldest rate row
\* of each order
SetAmountPaidStale(i) ==
    [invoices[i] EXCEPT
        !.final_amount_paid =
            FromSuperUnit(invoices[i].buyer_currency,
                SumSeq([k \in 1..Cardinality(OrdersOf(i)) |->
                    LET o == SetToSeq(OrdersOf(i))[k]
                    IN  BdDiv(ToSuperUnit(orders[o].total_amount,
                                          orders[o].seller_currency),
                              rates[o][1].rate)])),
        !.final_cashback_amount = FromSuperUnit("STQ", TotalCashback(i)),
        !.paid_at = now]

\* a mutant of the settlement: the amount captured is taken as paid
SetAmountCaptured(i) ==
    [invoices[i] EXCEPT
        !.final_amount_paid = invoices[i].amount_captured,
        !.final_cashback_amount = FromSuperUnit("STQ", TotalCashback(i)),
        !.paid_at = now]

\* InvoiceSetAmountPaid applied by invoices_repo.set_amount_paid
SetAmountPaid(i) ==
    [invoices[i] EXCEPT
        !.final_amount_paid =
            FromSuperUnit(invoices[i].buyer_currency, TotalPrice(i)),
        !.final_cashback_amount = FromSuperUnit("STQ", TotalCashback(i)),
        !.paid_at = now]

\* a mutant of the transaction: what was written stays written
NoRollback(ok, before, after) == after

\* conn.transaction: the writes of the closure are kept if it returns Ok
\* and undone if it returns Err
Transaction(ok, before, after) == IF ok THEN after ELSE before

\* calculate_invoice_price_and_set_final_price_if_paid, the last DB session
\* of handle_inbound_tx and recalc_invoice_v2.  event_ok: add_event succeeds.
PaidDetect(t, event_ok) ==
    LET tk == task[t]
        i == tk.inv
        written == [invoices EXCEPT ![i] = SetAmountPaid(i)]
        published == Append(journal, NewEntry("InvoicePaid", i, Null))
    IN
    /\ tk.pc = "detect"
    /\ UNCHANGED <<now, orders, rates, txs, intents, worker, config, fees, calc>>
    /\ IF ~invoices[i].exists
       THEN /\ Done(t, tk.op, tk.path, "Internal")
            /\ UNCHANGED <<invoices, journal>>
       ELSE IF AlreadyPaid(invoices[i]) \/ ~HasBecomePaid(i)
       THEN /\ Done(t, tk.op, tk.path, "ok")
            /\ UNCHANGED <<invoices, journal>>
       ELSE /\ Len(journal) < MaxJournal
            /\ invoices' = Transaction(event_ok, invoices, written)
            /\ journal' = Transaction(event_ok, journal,
                                      IF event_ok THEN published ELSE journal)
            /\ Done(t, tk.op, tk.path,
                                  IF event_ok THEN "ok" ELSE "Internal")

\* --------------------------------------------------------- recalc_invoice_v2
\* recalc_invoice_v2 up to the end of the refresh: the DB session that loads
\* the invoice and its active rates, then (crypto buyer, unpaid) the
\* configuration check and refresh_rates
RecalcLoad(t, i, remote_ok) ==
    /\ Free(t)
    /\ UNCHANGED <<now, invoices, orders, rates, txs, intents, journal,
                   worker, config, fees, calc>>
    /\ IF ~invoices[i].exists
       THEN Done(t, "recalc", "None", "ok")
       ELSE IF AlreadyPaid(invoices[i])
       THEN Done(t, "recalc", "Paid", "ok")
       ELSE IF IsFiat(invoices[i].buyer_currency)
       THEN Go(t, [IdleTask EXCEPT !.op = "recalc", !.pc = "detect", !.inv = i,
                     !.buyer = invoices[i].buyer_currency])
       ELSE IF ~PaymentsConfigured(config) \/ ~remote_ok
       THEN Done(t, "recalc", "none", "Internal")
       ELSE \E f \in Answers(i, invoices[i].buyer_currency) :
              Go(t, [IdleTask EXCEPT !.op = "recalc", !.pc = "save", !.inv = i,
                       !.buyer = invoices[i].buyer_currency,
                       !.news = RefreshRates(i, invoices[i].buyer_currency, f)])

\* ------------------------------------------------------------ event engine
\* the lease an entry gets when it is taken for processing
LeaseTime == 2

LeaseExpired(e) == e.lease_until < now

\* event_store_repo.reset_stuck_events: InProgress entries whose lease
\* expired go back to Pending
ResetStuckEvents(j) ==
    [k \in 1..Len(j) |->
        IF j[k].status = "InProgress" /\ LeaseExpired(j[k])
        THEN [j[k] EXCEPT !.status = "Pending", !.lease_until = Null]
        ELSE j[k]]

\* the Pending entries that are due
Due(j) ==
    {k \in 1..Len(j) :
        /\ j[k].status = "Pending"
        /\ j[k].scheduled_for = Null \/ j[k].scheduled_for <= now}

\* a mutant of the query: the youngest due entry
LastDue(j) ==
    IF Due(j) = {} THEN 0 ELSE CHOOSE k \in Due(j) : \A m \in Due(j) : k >= m

\* event_store_repo.get_events_for_processing(1): the oldest due entry (0:
\* none)
NextEvent(j) ==
    IF Due(j) = {} THEN 0 ELSE CHOOSE k \in Due(j) : \A m \in Due(j) : k <= m

GetEventsForProcessing(j) ==
    IF NextEvent(j) = 0 THEN j
    ELSE [j EXCEPT ![NextEvent(j)] =
             [@ EXCEPT !.status = "InProgress",
                       !.attempts = @ + 1,
                       !.lease_until = now + LeaseTime]]

\* a mutant of the session: entries are taken, stuck ones are left alone
TakeOnly(j) == GetEventsForProcessing(j)

\* the journal after the first DB session of process_events
TakeEvent(j) == GetEventsForProcessing(ResetStuckEvents(j))

\* a mutant of the hand-over: the oldest Pending entry, due or not
FirstPending(j) ==
    IF \A k \in 1..Len(j) : ResetStuckEvents(j)[k].status # "Pending" THEN 0
    ELSE CHOOSE k \in 1..Len(j) :
            /\ ResetStuckEvents(j)[k].status = "Pending"
            /\ \A m \in 1..(k - 1) : ResetStuckEvents(j)[m].status # "Pending"

\* the entry the session hands to handle_event (0: none)
TakenEvent(j) == NextEvent(ResetStuckEvents(j))

\* a mutant of the loop: a tick may start at any time
LoopAlways(w) == TRUE

\* the fold over the interval: the next tick is taken from the timer when
\* the future of the previous process_events has resolved
LoopIdle(w) == w.pc = "idle"

\* a mutant of the completion: every entry is completed
AlwaysCompleted(result) == "Completed"

\* the match on the result of the handler: complete_event or fail_event
Outcome(result) == IF result = "ok" THEN "Completed" ELSE "Failed"

\* a mutant of the loop: an error of process_events ends the fold
StopOnError(result) ==
    IF result = "ok" THEN [IdleWorker EXCEPT !.result = "ok"]
    ELSE [pc |-> "stopped", entry |-> 0, result |-> result]

\* the closure of the fold: the result of process_events is logged and the
\* handler is given back to the fold, whatever the result was
Resume(result) == [IdleWorker EXCEPT !.result = result]

\* a producer of events, scheduled or not
Enqueue(kind, ref, scheduled_for) ==
    /\ Len(journal) < MaxQueue
    /\ journal' = Append(journal, NewEntry(kind, ref, scheduled_for))
    /\ UNCHANGED <<now, invoices, orders, rates, txs, intents, task, reply,
                   requests, worker, config, fees, calc>>

\* one tick of the consumer loop: process_events up to handle_event.
\* db_ok: the DB session succeeds
Tick(db_ok) ==
    /\ LoopIdle(worker)
    /\ UNCHANGED <<now, invoices, orders, rates, txs, intents, task, reply,
                   requests, config, fees, calc>>
    /\ IF ~db_ok
       THEN /\ worker' = Resume("Internal")
            /\ UNCHANGED journal
       ELSE /\ journal' = TakeEvent(journal)
            /\ worker' = IF TakenEvent(journal) = 0
                         THEN Resume("ok")
                         ELSE [pc |-> "handling", entry |-> TakenEvent(journal),
                               result |-> "none"]

\* handle_event (the handlers are not part of the engine)
HandleEvent(ok) ==
    /\ worker.pc = "handling"
    /\ worker' = [worker EXCEPT !.pc = "completing",
                                !.result = IF ok THEN "ok" ELSE "Internal"]
    /\ UNCHANGED <<now, invoices, orders, rates, txs, intents, journal, task,
                   reply, requests, config, fees, calc>>

\* the completion session: complete_event or fail_event.  db_ok: the write
\* succeeds
Complete(db_ok) ==
    /\ worker.pc = "completing"
    /\ journal' = IF db_ok
                  THEN [journal EXCEPT ![worker.entry].status =
                           Outcome(worker.result)]
                  ELSE journal
    /\ worker' = Resume(IF db_ok THEN worker.result ELSE "Internal")
    /\ UNCHANGED <<now, invoices, orders, rates, txs, intents, task, reply,
                   requests, config, fees, calc>>

\* the process dies and is started again
Crash ==
    /\ worker.pc # "idle"
    /\ worker' = IdleWorker
    /\ UNCHANGED <<now, invoices, orders, rates, txs, intents, journal, task,
                   reply, requests, config, fees, calc>>

\* the clock of the engine
Tock ==
    /\ now < MaxClock
    /\ now' = now + 1
    /\ UNCHANGED <<invoices, orders, rates, txs, intents, journal, task,
                   reply, requests, worker, config, fees, calc>>

NextQueue ==
    \/ \E kind \in {"InvoicePaid", "PaymentExpired"}, ref \in InvoiceIds,
          scheduled_for \in {Null, 2} : Enqueue(kind, ref, scheduled_for)
    \/ \E db_ok \in BOOLEAN : Tick(db_ok)
    \/ \E ok \in BOOLEAN : HandleEvent(ok)
    \/ \E db_ok \in BOOLEAN : Complete(db_ok)
    \/ Crash
    \/ Tock

SpecQueue == Init /\ [][NextQueue]_vars

\* a timestamp one unit of time later, seen from a clock that stands at its
\* horizon
Nearer(ts) == IF ts = Null THEN Null ELSE IF ts > 0 THEN ts - 1 ELSE 0

\* the clock of the engine at its horizon: time passes and the timestamps
\* of the journal are kept relative to now
Horizon ==
    /\ now = MaxClock
    /\ journal' = [k \in 1..Len(journal) |->
                      [journal[k] EXCEPT !.lease_until = Nearer(@),
                                         !.scheduled_for = Nearer(@)]]
    /\ UNCHANGED <<now, invoices, orders, rates, txs, intents, task, reply,
                   requests, worker, config, fees, calc>>

\* the deliveries of one entry after which the completion write is no
\* longer made to fail
MaxAttempts == 2

\* one run of the process; InvoicePaid is published for immediate
\* delivery, PaymentExpired is scheduled
NextRun ==
    \/ \E ref \in InvoiceIds :
          \/ Enqueue("InvoicePaid", ref, Null)
          \/ Enqueue("PaymentExpired", ref, 2)
    \/ \E db_ok \in BOOLEAN : Tick(db_ok)
    \/ \E ok \in BOOLEAN : HandleEvent(ok)
    \/ \E db_ok \in BOOLEAN :
          /\ Complete(db_ok)
          /\ db_ok \/ journal[worker.entry].attempts < MaxAttempts
    \/ Tock
    \/ Horizon

\* one run of the process in which time passes, the interval keeps firing
\* and a DB session that is tried again and again succeeds at last, the
\* handlers terminate and the completion session is run
SpecRun ==
    /\ Init
    /\ [][NextRun]_vars
    /\ WF_vars(Tock \/ Horizon)
    /\ WF_vars(Tick(TRUE))
    /\ WF_vars(\E ok \in BOOLEAN : HandleEvent(ok))
    /\ SF_vars(Complete(TRUE))

\* ------------------------------------------------------ card-PSP webhook
\* config.stripe.secret_key
StripeSecret == "whsec"

CapturableUpdated == "payment_intent.amount_capturable_updated"
PaymentFailed == "payment_intent.payment_failed"
Succeeded == "payment_intent.succeeded"

\* the payloads of the card PSP: parsable or not (wf), the event type, the
\* kind of data.object and the id of the payment intent in it; payment
\* intent MaxInvoices + 1 is unknown to the ledger
StripePayloads ==
    {[wf |-> TRUE, type |-> ty, object |-> "payment_intent", id |-> 1] :
        ty \in {CapturableUpdated, PaymentFailed, Succeeded}}
    \cup {[wf |-> TRUE, type |-> CapturableUpdated,
           object |-> "payment_intent", id |-> MaxInvoices + 1],
          [wf |-> TRUE, type |-> CapturableUpdated, object |-> "charge",
           id |-> 1],
          [wf |-> FALSE, type |-> CapturableUpdated,
           object |-> "payment_intent", id |-> 1]}

\* the Stripe-Signature header: the secret it was made with and the payload
\* it was made over
StripeSign(kind, payload) ==
    [secret |-> IF kind = "wrongsecret" THEN "other" ELSE StripeSecret,
     over |-> IF kind = "mutated" THEN [payload EXCEPT !.id = 0]
              ELSE payload]

StripeSignKinds == {"good", "mutated", "wrongsecret"}

\* the deliveries: every payload correctly signed, and the first payload
\* with each of the bad signatures
StripeDeliveries ==
    {d \in StripePayloads \X StripeSignKinds :
        \/ d[2] = "good"
        \/ /\ d[1].wf /\ d[1].type = CapturableUpdated
           /\ d[1].object = "payment_intent" /\ d[1].id = 1}

\* Webhook::construct_event: the signature verifies under the secret and the
\* payload parses
ConstructEvent(payload, signature, secret) ==
    /\ signature.secret = secret
    /\ signature.over = payload
    /\ payload.wf

\* a mutant of the routing: every payment-intent event produces an event
RouteAll(type, object) ==
    IF object # "payment_intent" THEN "none"
    ELSE IF type = PaymentFailed THEN "PaymentIntentPaymentFailed"
    ELSE "PaymentIntentSucceeded"

\* the match on (event_type, data.object): the payload of the event to add
\* ("none": the warn! arm)
Route(type, object) ==
    IF type = CapturableUpdated /\ object = "payment_intent"
    THEN "PaymentIntentSucceeded"
    ELSE IF type = PaymentFailed /\ object = "payment_intent"
    THEN "PaymentIntentPaymentFailed"
    ELSE "none"

\* the DB session of handle_stripe_event, one transaction: the answer, the
\* kind of the event added and the journal it leaves.  db_ok: add_event
\* succeeds
StripeSession(payload, signature, db_ok) ==
    LET kind == Route(payload.type, payload.object)
        refused == [result |-> "Internal", path |-> "none",
                    journal |-> journal]
    IN  IF ~ConstructEvent(payload, signature, StripeSecret) THEN refused
        ELSE IF kind = "none"
        THEN [result |-> "ok", path |-> "none", journal |-> journal]
        ELSE Transaction(db_ok, refused,
                 [result |-> "ok", path |-> kind,
                  journal |-> Append(journal,
                                     NewEntry(kind, payload.id, Null))])

\* handle_stripe_event
HandleStripeEvent(t, payload, signature, db_ok) ==
    \E s \in {StripeSession(payload, signature, db_ok)} :
    /\ Free(t)
    /\ Len(journal) < MaxJournal
    /\ journal' = s.journal
    /\ Done(t, "stripe", s.path, s.result)
    /\ UNCHANGED <<now, invoices, orders, rates, txs, intents, worker,
                   config, fees, calc>>

\* ---------------------------------------------------------- event handlers
\* config.fee.order_percent
FeeOrderPercent == 5

HundredPercents == 100

\* create_fee: total_amount.checked_div(100), then checked_mul(order_percent)
FeeAmount(total_amount, order_percent) ==
    (total_amount \div HundredPercents) * order_percent

\* the NewFee of create_fee
NewFee(o, order_percent) ==
    [order_id |-> o,
     amount |-> FeeAmount(orders[o].total_amount, order_percent),
     status |-> "NotPaid",
     currency |-> orders[o].seller_currency]

\* the fee rows of an order
FeesOf(fs, o) == {k \in 1..Len(fs) : fs[k].order_id = o}

\* the for loop of payment_intent_success_invoice: fees_repo.create of the
\* fee of every order of the invoice
CreateFees(fs, os, order_percent) ==
    fs \o [k \in 1..Cardinality(os) |-> NewFee(SetToSeq(os)[k], order_percent)]

\* what a handler leaves: its result and the tables it may write
Handled(result) ==
    [result |-> result, invoices |-> invoices, intents |-> intents,
     fees |-> fees]

\* payment_intent_repo.get joined with payment_intent_invoices_repo.get
IntentsById(pid) == {p \in intents : p.id = pid}

\* payment_intent_success: the payment intent and its link are looked up,
\* then payment_intent_success_invoice creates the fees in one transaction.
\* db_ok: the statements succeed
PaymentIntentSuccess(pid, db_ok) ==
    IF IntentsById(pid) = {} THEN Handled("Internal")
    ELSE LET i == (CHOOSE p \in IntentsById(pid) : TRUE).invoice_id
         IN  IF ~invoices[i].exists THEN Handled("Internal")
             ELSE Transaction(db_ok, Handled("Internal"),
                      [Handled("ok") EXCEPT !.fees =
                          CreateFees(fees, OrdersOf(i), FeeOrderPercent)])

\* handler of PaymentIntentSucceeded: payment_intent_success, then the
\* invoice of the payment intent is marked paid if it is not already
HandlePaymentIntentSucceeded(pid, db_ok) ==
    LET h == PaymentIntentSuccess(pid, db_ok)
        i == (CHOOSE p \in IntentsById(pid) : TRUE).invoice_id
    IN  IF h.result # "ok" \/ AlreadyPaid(invoices[i]) THEN h
        ELSE [h EXCEPT !.invoices = [invoices EXCEPT ![i] = SetAmountPaid(i)]]

\* handler of PaymentIntentPaymentFailed: the status of the payment intent
\* row is marked, no invoice is touched
HandlePaymentIntentPaymentFailed(pid, db_ok) ==
    IF IntentsById(pid) = {} \/ ~db_ok THEN Handled("Internal")
    ELSE [Handled("ok") EXCEPT !.intents =
             {IF p.id = pid THEN [p EXCEPT !.status = "Failed"] ELSE p :
                 p \in intents}]

\* a mutant of the check: the expiry does not look at paid_at
ExpireAlways(inv) == FALSE

\* the paid check of the expiry: a paid invoice is left alone
ExpirySkipped(inv) == inv.paid_at # Null

\* handler of PaymentExpired: an unpaid invoice is marked expired and its
\* payment intent is cancelled (card flow) or its pooled account released
\* (crypto flow).  remote_ok: the call to the PSP succeeds
HandlePaymentExpired(i, remote_ok, db_ok) ==
    IF ~invoices[i].exists THEN Handled("Internal")
    ELSE IF ExpirySkipped(invoices[i]) THEN Handled("ok")
    ELSE IF ~remote_ok \/ ~db_ok THEN Handled("Internal")
    ELSE [Handled("ok") EXCEPT
             !.invoices = [invoices EXCEPT ![i].expired = TRUE,
                                           ![i].account_id = Null],
             !.intents =
                 {IF p.invoice_id = i THEN [p EXCEPT !.status = "Canceled"]
                  ELSE p : p \in intents}]

\* handler of InvoicePaid: the saga service is notified
HandleInvoicePaid(i, remote_ok) ==
    IF remote_ok THEN Handled("ok") ELSE Handled("Internal")

\* handle_event: the handler of the payload variant
HandlerOf(e, remote_ok, db_ok) ==
    IF e.kind = "PaymentIntentSucceeded"
    THEN HandlePaymentIntentSucceeded(e.ref, db_ok)
    ELSE IF e.kind = "PaymentIntentPaymentFailed"
    THEN HandlePaymentIntentPaymentFailed(e.ref, db_ok)
    ELSE IF e.kind = "PaymentExpired"
    THEN HandlePaymentExpired(e.ref, remote_ok, db_ok)
    ELSE HandleInvoicePaid(e.ref, remote_ok)

\* handle_event of the entry the tick took, with its handler
Dispatch(remote_ok, db_ok) ==
    /\ worker.pc = "handling"
    /\ \E h \in {HandlerOf(journal[worker.entry], remote_ok, db_ok)} :
          /\ Len(h.fees) <= MaxFees
          /\ invoices' = h.invoices
          /\ intents' = h.intents
          /\ fees' = h.fees
          /\ worker' = [worker EXCEPT !.pc = "completing",
                                      !.result = h.result]
    /\ UNCHANGED <<now, orders, rates, txs, journal, task, reply, requests,
                   config, calc>>

\* the order lists of the requests of the card flow (the last one with a
\* total above U64Max minor units) and of one crypto flow
EventOrders ==
    {<<[id |-> 1, currency |-> "EUR", total_amount |-> 15000,
        product_cashback |-> Null]>>,
     <<[id |-> 1, currency |-> "EUR", total_amount |-> 15000,
        product_cashback |-> Null],
       [id |-> 2, currency |-> "EUR", total_amount |-> BdOne,
        product_cashback |-> Null]>>,
     <<[id |-> 1, currency |-> "ETH", total_amount |-> BdOne,
        product_cashback |-> 5000]>>,
     <<[id |-> 1, currency |-> "EUR", total_amount |-> 11 * BdOne,
        product_cashback |-> Null]>>}

\* correctly signed callbacks for the first account
EventDeliveries ==
    {d \in Deliveries :
        d[2] = "good" /\ d[1].account_id = 1 /\ d[1].tx = 1
        /\ d[1].amount # Null}

\* the service with its requests one at a time, and the consumer loop with
\* its handlers
NextEvents ==
    \/ \E id \in InvoiceIds, buyer \in BuyerCurrencies, ords \in EventOrders :
          CreatePrepare(1, id, buyer, ords)
    \/ \E event_ok, db_ok \in BOOLEAN : CreateCommit(1, event_ok, db_ok)
    \/ \E d \in EventDeliveries : HitCapture(1, d[1], Sign(d[2], d[1]))
    \/ \E remote_ok \in BOOLEAN : HitLoad(1, remote_ok)
    \/ \E k \in 0..MaxOrders : SaveRates(1, k)
    \/ \E event_ok \in BOOLEAN : PaidDetect(1, event_ok)
    \/ \E d \in StripeDeliveries, db_ok \in BOOLEAN :
          HandleStripeEvent(1, d[1], StripeSign(d[2], d[1]), db_ok)
    \/ \E db_ok \in BOOLEAN : Tick(db_ok)
    \/ \E remote_ok, db_ok \in BOOLEAN : Dispatch(remote_ok, db_ok)
    \/ \E db_ok \in BOOLEAN : Complete(db_ok)
    \/ AdvanceTime

SpecEvents == Init /\ [][NextEvents]_vars

\* ------------------------------------------- delete_invoice_by_saga_id_v2
\* the rows of the transaction of delete_invoice_by_saga_id_v2
Rows ==
    [invoices |-> invoices, orders |-> orders, rates |-> rates,
     intents |-> intents]

\* payment_intent_invoices_repo.get(SearchPaymentIntentInvoice::InvoiceId)
IntentsOfInvoice(i) == {p \in intents : p.invoice_id = i}

\* the rows as the closure of the transaction leaves them: the orders of
\* the invoice and their rates are deleted; when the link to a payment
\* intent is found, the payment intent (and its link) and the invoice too
Deleted(i) ==
    [invoices |-> IF IntentsOfInvoice(i) = {} THEN invoices
                  ELSE [invoices EXCEPT ![i] = NoInvoice],
     orders |-> [o \in OrderIds |->
                    IF o \in OrdersOf(i) THEN NoOrder ELSE orders[o]],
     rates |-> [o \in OrderIds |->
                   IF o \in OrdersOf(i) THEN <<>> ELSE rates[o]],
     intents |-> intents \ IntentsOfInvoice(i)]

\* the closure returns Ok: the link is found and no statement fails
DeleteOk(i, db_ok) == IntentsOfInvoice(i) # {} /\ db_ok

\* the transaction of delete_invoice_by_saga_id_v2: the payment intent
\* that was deleted (Null: none, or an error) and the rows it leaves
DeleteSession(i, db_ok) ==
    [result |-> IF DeleteOk(i, db_ok) THEN "ok" ELSE "Internal",
     deleted |-> IF DeleteOk(i, db_ok)
                 THEN (CHOOSE p \in IntentsOfInvoice(i) : TRUE).id
                 ELSE Null,
     rows |-> Transaction(DeleteOk(i, db_ok), Rows, Deleted(i))]

\* delete_invoice_by_saga_id_v2 up to the end of its DB session
DeleteTx(t, i, db_ok) ==
    \E s \in {DeleteSession(i, db_ok)} :
    /\ Free(t)
    /\ invoices' = s.rows.invoices
    /\ orders' = s.rows.orders
    /\ rates' = s.rows.rates
    /\ intents' = s.rows.intents
    /\ UNCHANGED <<now, txs, journal, worker, config, fees, calc>>
    /\ IF s.result = "ok" /\ s.deleted # Null
       THEN Go(t, [IdleTask EXCEPT !.op = "delete", !.pc = "cancel",
                        !.inv = i, !.intent = s.deleted])
       ELSE Done(t, "delete", "none", s.result)

\* the and_then of delete_invoice_by_saga_id_v2: cancel_payment_intent at
\* the card PSP.  remote_ok: the PSP answers without error
DeleteCancel(t, remote_ok) ==
    /\ task[t].op = "delete" /\ task[t].pc = "cancel"
    /\ UNCHANGED <<now, invoices, orders, rates, txs, intents, journal,
                   worker, config, fees, calc>>
    /\ Done(t, "delete", "cancel", IF remote_ok THEN "ok" ELSE "Internal")

\* the service with the creation, the recalculation and the deletion of
\* invoices
NextLifecycle ==
    \/ \E t \in Tasks, id \in InvoiceIds, buyer \in BuyerCurrencies,
          ords \in EventOrders : CreatePrepare(t, id, buyer, ords)
    \/ \E t \in Tasks, event_ok, db_ok \in BOOLEAN :
          CreateCommit(t, event_ok, db_ok)
    \/ \E t \in Tasks, i \in InvoiceIds, db_ok \in BOOLEAN :
          DeleteTx(t, i, db_ok)
    \/ \E t \in Tasks, remote_ok \in BOOLEAN : DeleteCancel(t, remote_ok)
    \/ \E t \in Tasks, i \in InvoiceIds, remote_ok \in BOOLEAN :
          RecalcLoad(t, i, remote_ok)
    \/ \E t \in Tasks, k \in 0..MaxOrders : SaveRates(t, k)
    \/ \E t \in Tasks, event_ok \in BOOLEAN : PaidDetect(t, event_ok)
    \/ AdvanceTime

SpecLifecycle == Init /\ [][NextLifecycle]_vars

\* ------------------------------------------------------------- the service
Next ==
    \/ \E t \in Tasks, id \in InvoiceIds, buyer \in BuyerCurrencies,
          ords \in CreateOrders : CreatePrepare(t, id, buyer, ords)
    \/ \E t \in Tasks, event_ok, db_ok \in BOOLEAN :
          CreateCommit(t, event_ok, db_ok)
    \/ \E t \in Tasks, d \in Deliveries :
          HitCapture(t, d[1], Sign(d[2], d[1]))
    \/ \E t \in Tasks, remote_ok \in BOOLEAN : HitLoad(t, remote_ok)
    \/ \E t \in Tasks, i \in InvoiceIds, remote_ok \in BOOLEAN :
          RecalcLoad(t, i, remote_ok)
    \/ \E t \in Tasks, k \in 0..MaxOrders : SaveRates(t, k)
    \/ \E t \in Tasks, event_ok \in BOOLEAN : PaidDetect(t, event_ok)
    \/ AdvanceTime

Spec == Init /\ [][Next]_vars

\* the service is started again with another configuration while no
\* request is in flight; the database stays as it is
Redeploy(c) ==
    /\ c # config
    /\ \A t \in Tasks : task[t].pc = "done"
    /\ config' = c
    /\ reply' = NoReply
    /\ UNCHANGED <<now, invoices, orders, rates, txs, intents, journal, task,
                   requests, worker, fees, calc>>

NextDeploy ==
    \/ Next
    \/ \E c \in Configs : Redeploy(c)

SpecDeploy == Init /\ [][NextDeploy]_vars

\* ------------------------------------------------- the capture of payments
\* correctly signed callbacks for the pooled accounts, with two amounts
CaptureCallbacks ==
    [account_id : Accounts, address : {0}, tx : TxIds, amount : {500, 700}]

\* the crypto flow: invoices are created and inbound transactions arrive
\* for their accounts, each request running in its own task
NextCapture ==
    \/ \E t \in Tasks, id \in InvoiceIds, ords \in CreateOrders :
          CreatePrepare(t, id, "STQ", ords)
    \/ \E t \in Tasks, event_ok, db_ok \in BOOLEAN :
          CreateCommit(t, event_ok, db_ok)
    \/ \E t \in Tasks, cb \in CaptureCallbacks :
          HitCapture(t, cb, Sign("good", cb))
    \/ \E t \in Tasks, remote_ok \in BOOLEAN : HitLoad(t, remote_ok)
    \/ \E t \in Tasks, k \in 0..MaxOrders : SaveRates(t, k)
    \/ \E t \in Tasks, event_ok \in BOOLEAN : PaidDetect(t, event_ok)

SpecCapture == Init /\ [][NextCapture]_vars

\* ------------------------------------------------------- the rate refresh
\* the order lists whose every order is priced by the PSP for an STQ buyer
RefreshOrders ==
    {<<x, y>> : x \in {z \in OrderInputs : z.id = 1 /\ z.currency = "ETH"
                                             /\ z.product_cashback = Null},
                y \in {z \in OrderInputs : z.id = 2 /\ z.currency = "ETH"
                                             /\ z.product_cashback = Null}}

\* invoices whose orders all carry a rate of the PSP are created, and
\* recalc_invoice_v2 and handle_inbound_tx refresh and store their rates
NextRefresh ==
    \/ \E t \in Tasks, id \in InvoiceIds, ords \in RefreshOrders :
          CreatePrepare(t, id, "STQ", ords)
    \/ \E t \in Tasks, event_ok, db_ok \in BOOLEAN :
          CreateCommit(t, event_ok, db_ok)
    \/ \E t \in Tasks, cb \in CaptureCallbacks :
          HitCapture(t, cb, Sign("good", cb))
    \/ \E t \in Tasks, remote_ok \in BOOLEAN : HitLoad(t, remote_ok)
    \/ \E t \in Tasks, i \in InvoiceIds, remote_ok \in BOOLEAN :
          RecalcLoad(t, i, remote_ok)
    \/ \E t \in Tasks, k \in 0..MaxOrders : SaveRates(t, k)
    \/ \E t \in Tasks, event_ok \in BOOLEAN : PaidDetect(t, event_ok)

SpecRefresh == Init /\ [][NextRefresh]_vars

\* ------------------------------------------- the steps of the operations
\* the steps an operation of InvoiceService takes when nothing fails, in the
\* order of the code: calls to a remote service ("psp.", "card.", "billing.",
\* "saga."), statements on the DB connection ("db.") and the bounds of
\* conn.transaction ("begin", "commit")
Script(op) ==
    IF op = "create_invoice_v2/card"
    THEN <<"card.create_payment_intent", "db.add_scheduled_event", "begin",
           "db.create_invoice", "db.create_payment_intent",
           "db.create_orders", "commit">>
    ELSE IF op = "create_invoice_v2/crypto"
    THEN <<"psp.get_rate", "psp.get_or_create_free_pooled_account",
           "db.add_scheduled_event", "begin", "db.create_invoice",
           "db.create_orders", "commit">>
    ELSE IF op = "recalc_invoice_v1"
    THEN <<"begin", "billing.login", "billing.recalc", "db.update_invoice",
           "db.update_status", "saga.update_state", "commit">>
    ELSE IF op = "recalc_invoice_v2"
    THEN <<"db.get_invoice", "psp.refresh_rate", "db.add_new_active_rate",
           "begin", "db.set_amount_paid", "db.add_event", "commit">>
    ELSE IF op = "delete_invoice_by_saga_id_v1"
    THEN <<"begin", "db.delete_invoice", "db.delete_order_info", "commit">>
    ELSE IF op = "delete_invoice_by_saga_id_v2"
    THEN <<"begin", "db.delete_orders", "db.delete_rates",
           "db.delete_payment_intent", "db.delete_invoice", "commit",
           "card.cancel_payment_intent">>
    ELSE IF op = "update_invoice"
    THEN <<"begin", "db.update_invoice", "db.update_status",
           "saga.update_state", "commit">>
    ELSE <<"db.increase_amount_captured", "db.get_order_active_rates",
           "psp.refresh_rate", "db.add_new_active_rate", "begin",
           "db.set_amount_paid", "db.add_event", "commit">>

Operations ==
    {"create_invoice_v2/card", "create_invoice_v2/crypto",
     "recalc_invoice_v1", "recalc_invoice_v2",
     "delete_invoice_by_saga_id_v1", "delete_invoice_by_saga_id_v2",
     "update_invoice", "handle_inbound_tx"}

\* the step is a call to a remote service
IsRemote(step) ==
    step \in {"card.create_payment_intent", "card.cancel_payment_intent",
              "psp.get_rate", "psp.get_or_create_free_pooled_account",
              "psp.refresh_rate", "billing.login", "billing.recalc",
              "saga.update_state"}

\* an operation takes its next step; a step may fail, which ends the
\* operation (and rolls back an open transaction)
StepOperation(ok) ==
    /\ calc.fn = "operation"
    /\ calc.pc < Len(Script(calc.op))
    /\ calc.pc > 0 => calc.step # "failed"
    /\ LET step == Script(calc.op)[calc.pc + 1]
       IN  calc' = IF ~ok /\ step \notin {"begin", "commit"}
                   THEN [calc EXCEPT !.pc = Len(Script(calc.op)),
                                     !.step = "failed", !.in_tx = FALSE]
                   ELSE [calc EXCEPT !.pc = @ + 1, !.step = step,
                                     !.in_tx = IF step = "begin" THEN TRUE
                                               ELSE IF step = "commit"
                                               THEN FALSE ELSE @]
    /\ UNCHANGED <<now, invoices, orders, rates, txs, intents, journal, task,
                   reply, requests, worker, config, fees>>

InitOperation ==
    /\ Boot
    /\ calc \in [fn : {"operation"}, op : Operations, pc : {0},
                  step : {"none"}, in_tx : {FALSE}]

NextOperation == \E ok \in BOOLEAN : StepOperation(ok)

SpecOperation == InitOperation /\ [][NextOperation]_vars

\* -------------------------------------------------------- create_crypto_fee
\* ExchangeRate of the test and a second one
ExchangeRates == {2, 5}

\* CurrencyExchangeInfo.data: for a seller currency the rates to the fee
\* currencies (Null: the pair has no rate)
CurrencyExchangeInfos ==
    [{"STQ", "ETH"} -> [{"EUR", "USD"} -> ExchangeRates \cup {Null}]]

\* the RawOrder of the call: 0, 7.5 and 100 super-units of a crypto currency
FeeOrders ==
    [id : {1}, seller_currency : {"STQ", "ETH"},
     total_amount : {0, 7500, 100000}]

\* convert_total_amount: Amount::from_super_unit(fee_currency,
\* total_amount_super_unit / exchange_rate)
ConvertTotalAmount(order, fee_currency, exchange_rate) ==
    FromSuperUnit(fee_currency,
        BdDiv(ToSuperUnit(order.total_amount, order.seller_currency),
              exchange_rate))

NoFee == [order_id |-> Null]

\* create_crypto_fee
CreateCryptoFee(order_percent, fee_currency, info, order) ==
    LET exchange_rate == info[order.seller_currency][fee_currency]
    IN  IF exchange_rate = Null
        THEN [result |-> "Internal", fee |-> NoFee]
        ELSE [result |-> "ok",
              fee |-> [order_id |-> order.id,
                       amount |->
                          (ConvertTotalAmount(order, fee_currency,
                                              exchange_rate)
                              \div HundredPercents) * order_percent,
                       status |-> "NotPaid",
                       currency |-> fee_currency,
                       crypto_currency |-> order.seller_currency,
                       crypto_amount |-> order.total_amount]]

\* the calls of create_crypto_fee that are looked at
CryptoFeeCalls ==
    [fn : {"create_crypto_fee"},
     args : [order_percent : {FeeOrderPercent},
             fee_currency : {"EUR", "USD"},
             info : CurrencyExchangeInfos,
             order : FeeOrders],
     out : {[result |-> "none", fee |-> NoFee]}]

\* one call of create_crypto_fee
CallCreateCryptoFee ==
    /\ calc.fn = "create_crypto_fee"
    /\ calc.out.result = "none"
    /\ calc' = [calc EXCEPT !.out =
                    CreateCryptoFee(calc.args.order_percent,
                                    calc.args.fee_currency,
                                    calc.args.info, calc.args.order)]
    /\ UNCHANGED <<now, invoices, orders, rates, txs, intents, journal, task,
                   reply, requests, worker, config, fees>>

InitFee == Boot /\ calc \in CryptoFeeCalls

NextFee == CallCreateCryptoFee

SpecFee == InitFee /\ [][NextFee]_vars

\* -------------------------------------------------- reserve_or_refresh_rate
\* the current rate of the call: none, the dummy rate or a rate of the PSP
CurrentRates ==
    {NoRate,
     [exchange_id |-> Null, rate |-> 1, status |-> "Active"],
     [exchange_id |-> 3, rate |-> 2, status |-> "Active"]}

\* what the PSP answers to get_rate or refresh_rate, if it is asked: an
\* error, or a Rate with (refresh_rate) the is_new_rate flag
PspAnswers ==
    [ok : BOOLEAN, id : {4}, rate : RateValues, is_new_rate : BOOLEAN]

\* a mutant of the match: every current rate is refreshed
RefreshEvery(buyer_currency, order, current_rate) ==
    IF current_rate.status = "None" THEN "get_rate" ELSE "refresh_rate"

\* the match of reserve_or_refresh_rate with the branch of get_rate: what is
\* done for the order
RateDecision(buyer_currency, order, current_rate) ==
    IF current_rate.status = "None"
    THEN IF IsFiat(order.seller_currency) THEN "unsupported"
         ELSE IF buyer_currency = order.seller_currency THEN "dummy"
         ELSE "get_rate"
    ELSE IF current_rate.exchange_id = Null THEN "keep"
    ELSE "refresh_rate"

NoNewRate == [order_id |-> Null, exchange_id |-> Null, rate |-> 0]

\* reserve_or_refresh_rate: the result, the NewOrderExchangeRate (NoNewRate:
\* None) and the calls made to the PSP
ReserveOrRefreshRate(buyer_currency, order, current_rate, psp) ==
    LET d == RateDecision(buyer_currency, order, current_rate)
        fresh == [order_id |-> order.id, exchange_id |-> psp.id,
                  rate |-> psp.rate]
    IN  IF d = "unsupported"
        THEN [result |-> "Internal", new |-> NoNewRate, calls |-> <<>>]
        ELSE IF d = "dummy"
        THEN [result |-> "ok",
              new |-> [order_id |-> order.id, exchange_id |-> Null,
                       rate |-> 1],
              calls |-> <<>>]
        ELSE IF d = "keep"
        THEN [result |-> "ok", new |-> NoNewRate, calls |-> <<>>]
        ELSE IF ~psp.ok
        THEN [result |-> "Internal", new |-> NoNewRate, calls |-> <<d>>]
        ELSE IF d = "get_rate" \/ psp.is_new_rate
        THEN [result |-> "ok", new |-> fresh, calls |-> <<d>>]
        ELSE [result |-> "ok", new |-> NoNewRate, calls |-> <<d>>]

\* the calls of reserve_or_refresh_rate that are looked at
RateCalls ==
    [fn : {"reserve_or_refresh_rate"},
     args : [buyer_currency : {"STQ", "ETH"},
             order : [id : {1}, seller_currency : Currencies],
             current_rate : CurrentRates,
             psp : PspAnswers],
     out : {[result |-> "none", new |-> NoNewRate, calls |-> <<>>]}]

\* one call of reserve_or_refresh_rate
CallReserveOrRefreshRate ==
    /\ calc.fn = "reserve_or_refresh_rate"
    /\ calc.out.result = "none"
    /\ calc' = [calc EXCEPT !.out =
                    ReserveOrRefreshRate(calc.args.buyer_currency,
                                         calc.args.order,
                                         calc.args.current_rate,
                                         calc.args.psp)]
    /\ UNCHANGED <<now, invoices, orders, rates, txs, intents, journal, task,
                   reply, requests, worker, config, fees>>

InitRate == Boot /\ calc \in RateCalls

NextRate == CallReserveOrRefreshRate

SpecRate == InitRate /\ [][NextRate]_vars

\* ------------------------------------------------- payment_intent_success
\* the rows the orders repo returns for the invoice of a payment intent
IntentOrders ==
    {<<>>,
     <<[id |-> 1, total_amount |-> 15000, seller_currency |-> "EUR"]>>,
     <<[id |-> 1, total_amount |-> 15000, seller_currency |-> "EUR"],
       [id |-> 2, total_amount |-> 250, seller_currency |-> "EUR"]>>}

\* the fees table before the call
IntentFees ==
    {<<>>,
     <<[order_id |-> 1, amount |-> 750, status |-> "NotPaid",
        currency |-> "EUR"]>>,
     <<[order_id |-> 1, amount |-> 750, status |-> "NotPaid",
        currency |-> "EUR"],
       [order_id |-> 2, amount |-> 10, status |-> "NotPaid",
        currency |-> "EUR"]>>}

\* a mutant of the match: the link to an invoice wins
InvoiceFirst(payment_intent_invoice, payment_intent_fee) ==
    IF payment_intent_invoice # Null THEN "Invoice"
    ELSE IF payment_intent_fee # Null THEN "Fee"
    ELSE "None"

\* the match on (payment_intent_invoice, payment_intent_fee)
PaymentTypeOf(payment_intent_invoice, payment_intent_fee) ==
    IF payment_intent_invoice # Null /\ payment_intent_fee # Null THEN "Both"
    ELSE IF payment_intent_invoice # Null THEN "Invoice"
    ELSE IF payment_intent_fee # Null THEN "Fee"
    ELSE "None"

\* the answer of payment_intent_success and the fees table it leaves
IntentAnswer(result, type, fs) ==
    [result |-> result, type |-> type, fees |-> fs]

\* payment_intent_success_invoice: in one transaction the invoice is read
\* and create_fee is called for each of its orders
PaymentIntentSuccessInvoice(fs, invoice_exists, os, db_ok) ==
    IF ~invoice_exists \/ ~db_ok THEN IntentAnswer("Internal", "none", fs)
    ELSE IntentAnswer("ok", "Invoice",
            fs \o [k \in 1..Len(os) |->
                      [order_id |-> os[k].id,
                       amount |-> FeeAmount(os[k].total_amount,
                                            FeeOrderPercent),
                       status |-> "NotPaid",
                       currency |-> os[k].seller_currency]])

\* payment_intent_success_fee: in one transaction fees_repo.update sets the
\* status of the fee of the link to Paid
PaymentIntentSuccessFee(fs, fee_id, db_ok) ==
    IF fee_id \notin 1..Len(fs) \/ ~db_ok
    THEN IntentAnswer("Internal", "none", fs)
    ELSE IntentAnswer("ok", "Fee", [fs EXCEPT ![fee_id].status = "Paid"])

\* payment_intent_success with the rows its lookups find.  a.intent: the
\* payment intent row exists; a.invoice_link, a.fee_link: the invoice and
\* the fee of the link rows of the payment intent (Null: no row)
PaymentIntentSuccessLinked(a) ==
    IF ~a.intent THEN IntentAnswer("Internal", "none", a.fees)
    ELSE LET type == PaymentTypeOf(a.invoice_link, a.fee_link)
         IN  IF type = "Invoice"
             THEN PaymentIntentSuccessInvoice(a.fees, a.invoice_exists,
                                              a.orders, a.db_ok)
             ELSE IF type = "Fee"
             THEN PaymentIntentSuccessFee(a.fees, a.fee_link, a.db_ok)
             ELSE IntentAnswer("Internal", "none", a.fees)

IntentCalls ==
    [fn : {"payment_intent_success"},
     args : [intent : BOOLEAN, invoice_link : {Null, 1},
             fee_link : {Null, 1, 2}, invoice_exists : BOOLEAN,
             orders : IntentOrders, fees : IntentFees, db_ok : BOOLEAN],
     out : {IntentAnswer("none", "none", <<>>)}]

CallPaymentIntentSuccess ==
    /\ calc.fn = "payment_intent_success"
    /\ calc.out.result = "none"
    /\ calc' = [calc EXCEPT !.out = PaymentIntentSuccessLinked(calc.args)]
    /\ UNCHANGED <<now, invoices, orders, rates, txs, intents, journal, task,
                   reply, requests, worker, config, fees>>

InitIntent == Boot /\ calc \in IntentCalls

NextIntent == CallPaymentIntentSuccess

SpecIntent == InitIntent /\ [][NextIntent]_vars

\* ------------------------------------------------- the pooled accounts
\* crypto-flow create_invoice_v2 requests for two invoices and the callbacks
\* of the crypto PSP, reduced to the link between invoices and pooled
\* accounts: calc.inv is the invoices table, calc.req the requests
PoolInvoices == {1, 2}

PoolAccounts == {1, 2}

PoolRequests == {1, 2}

NoPoolInvoice == [exists |-> FALSE, account_id |-> Null, paid |-> FALSE]

IdlePool == [pc |-> "idle", inv |-> 0, account |-> Null]

\* invoices_repo.get_by_account_id on table inv
PoolLinked(inv, a) ==
    {i \in PoolInvoices : inv[i].exists /\ inv[i].account_id = a}

\* get_or_create_free_pooled_account: a pooled account that no invoice is
\* linked to
PoolFree(inv) == {a \in PoolAccounts : PoolLinked(inv, a) = {}}

\* create_invoice_v2, crypto flow, up to the DB session: the free pooled
\* account is asked for
PoolPrepare(t, id) ==
    /\ calc.fn = "pool"
    /\ calc.req[t].pc = "idle"
    /\ \E a \in PoolFree(calc.inv) :
          calc' = [calc EXCEPT !.req[t] =
                      [pc |-> "chosen", inv |-> id, account |-> a]]
    /\ UNCHANGED <<now, invoices, orders, rates, txs, intents, journal, task,
                   reply, requests, worker, config, fees>>

\* the DB session of create_invoice_v2: the transaction stores the invoice
\* with the account_id the request holds.  db_ok: no statement fails
PoolCommit(t, db_ok) ==
    /\ calc.fn = "pool"
    /\ calc.req[t].pc = "chosen"
    /\ calc' = [calc EXCEPT
          !.req[t] = IdlePool,
          !.inv = IF db_ok /\ ~calc.inv[calc.req[t].inv].exists
                  THEN [@ EXCEPT ![calc.req[t].inv] =
                           [exists |-> TRUE,
                            account_id |-> calc.req[t].account,
                            paid |-> FALSE]]
                  ELSE @]
    /\ UNCHANGED <<now, invoices, orders, rates, txs, intents, journal, task,
                   reply, requests, worker, config, fees>>

\* handle_inbound_tx for account a with an amount that pays the invoice:
\* the invoice get_by_account_id returns is credited and marked paid
PoolCredit(a) ==
    /\ calc.fn = "pool"
    /\ PoolLinked(calc.inv, a) # {}
    /\ \E i \in PoolLinked(calc.inv, a) :
          /\ ~calc.inv[i].paid
          /\ calc' = [calc EXCEPT !.inv[i].paid = TRUE]
    /\ UNCHANGED <<now, invoices, orders, rates, txs, intents, journal, task,
                   reply, requests, worker, config, fees>>

\* delete_invoice_by_saga_id_v1 and the expiry: the invoice leaves its
\* account
PoolRelease(i) ==
    /\ calc.fn = "pool"
    /\ calc.inv[i].exists
    /\ \A t \in PoolRequests : calc.req[t].inv # i
    /\ calc' = [calc EXCEPT !.inv[i] = NoPoolInvoice]
    /\ UNCHANGED <<now, invoices, orders, rates, txs, intents, journal, task,
                   reply, requests, worker, config, fees>>

InitPool ==
    /\ Boot
    /\ calc = [fn |-> "pool",
               inv |-> [i \in PoolInvoices |-> NoPoolInvoice],
               req |-> [t \in PoolRequests |-> IdlePool]]

NextPool ==
    \/ \E t \in PoolRequests, id \in PoolInvoices : PoolPrepare(t, id)
    \/ \E t \in PoolRequests, db_ok \in BOOLEAN : PoolCommit(t, db_ok)
    \/ \E a \in PoolAccounts : PoolCredit(a)
    \/ \E i \in PoolInvoices : PoolRelease(i)

SpecPool == InitPool /\ [][NextPool]_vars

\* ------------------------------------------------------------ ApplicationAcl
BillingRoles == {"Superuser", "User", "StoreManager", "FinancialManager"}

Actions == {"All", "Read", "Write"}

\* permission!(resource), permission!(resource, action) and
\* permission!(resource, action, scope)
PermissionAll(resource) ==
    [resource |-> resource, action |-> "All", scope |-> "All"]

PermissionAny(resource, action) ==
    [resource |-> resource, action |-> action, scope |-> "All"]

Permission(resource, action, scope) ==
    [resource |-> resource, action |-> action, scope |-> scope]

\* the resources the Superuser is given
Resources ==
    {"OrderInfo", "UserRoles", "Invoice", "Account", "OrderExchangeRate",
     "PaymentIntent", "PaymentIntentFee", "PaymentIntentInvoice", "Customer",
     "Fee", "StoreBillingType", "BillingInfo", "ProxyCompanyBillingInfo",
     "UserWallet", "Payout", "Subscription", "StoreSubscription",
     "StoreSubscriptionStatus", "SubscriptionPayment"}

\* a mutant of the table: the User may read every UserRoles object
OpenAcls(role) ==
    IF role = "Superuser" THEN {PermissionAll(r) : r \in Resources}
    ELSE {PermissionAny("UserRoles", "Read")}

\* ApplicationAcl::new: the permissions of every role
Acls(role) ==
    IF role = "Superuser" THEN {PermissionAll(r) : r \in Resources}
    ELSE IF role = "User" THEN
        {Permission("UserRoles", "Read", "Owned"),
         Permission("Invoice", "Read", "Owned"),
         Permission("Invoice", "Write", "Owned"),
         Permission("OrderInfo", "Write", "Owned"),
         Permission("OrderInfo", "Read", "Owned"),
         Permission("OrderExchangeRate", "Read", "Owned"),
         Permission("OrderExchangeRate", "Write", "Owned"),
         PermissionAny("PaymentIntent", "Read"),
         PermissionAny("PaymentIntent", "Write"),
         Permission("PaymentIntentFee", "Read", "Owned"),
         Permission("PaymentIntentInvoice", "Read", "Owned"),
         Permission("Customer", "Read", "Owned"),
         Permission("Customer", "Write", "Owned"),
         Permission("UserWallet", "Read", "Owned"),
         Permission("UserWallet", "Write", "Owned"),
         Permission("Payout", "Read", "Owned"),
         Permission("Payout", "Write", "Owned")}
    ELSE IF role = "StoreManager" THEN
        {Permission("OrderInfo", "Read", "Owned"),
         Permission("UserRoles", "Read", "Owned"),
         Permission("OrderExchangeRate", "Read", "Owned"),
         Permission("OrderExchangeRate", "Write", "Owned"),
         Permission("BillingInfo", "Read", "Owned"),
         Permission("BillingInfo", "Write", "Owned"),
         Permission("StoreBillingType", "Read", "Owned"),
         Permission("StoreBillingType", "Write", "Owned"),
         PermissionAny("PaymentIntent", "Read"),
         PermissionAny("PaymentIntent", "Write"),
         Permission("PaymentIntentFee", "Read", "Owned"),
         Permission("PaymentIntentInvoice", "Read", "Owned"),
         Permission("Fee", "Read", "Owned"),
         Permission("Fee", "Write", "Owned"),
         Permission("UserWallet", "Read", "Owned"),
         Permission("UserWallet", "Write", "Owned"),
         Permission("Payout", "Read", "Owned"),
         Permission("Payout", "Write", "Owned"),
         Permission("StoreSubscription", "Read", "Owned"),
         Permission("StoreSubscription", "Write", "Owned")}
    ELSE
        {PermissionAny("OrderInfo", "Read"),
         PermissionAny("StoreBillingType", "Read"),
         PermissionAny("BillingInfo", "Read"),
         PermissionAny("Fee", "Read"),
         PermissionAny("Fee", "Write"),
         PermissionAny("ProxyCompanyBillingInfo", "Read"),
         PermissionAny("PaymentIntentFee", "Read"),
         PermissionAny("PaymentIntentInvoice", "Read"),
         PermissionAny("PaymentIntent", "Read"),
         PermissionAny("Customer", "Read"),
         PermissionAny("UserWallet", "Read"),
         PermissionAny("Payout", "Read"),
         PermissionAny("Payout", "Write"),
         PermissionAny("Subscription", "Read"),
         PermissionAny("StoreSubscription", "Read"),
         PermissionAny("StoreSubscription", "Write"),
         PermissionAny("StoreSubscriptionStatus", "Read"),
         PermissionAny("StoreSubscriptionStatus", "Write"),
         PermissionAny("SubscriptionPayment", "Read")}

UserIds == {1, 2}

\* the two scope checkers of the tests
ScopeCheckers == {"OrderInfo", "UserRole"}

\* CheckScope::is_in_scope of the tests' ScopeChecker; obj is the user_id of
\* the object (Null: no object)
IsInScope(checker, user_id, scope, obj) ==
    IF scope = "All" THEN TRUE
    ELSE IF checker = "OrderInfo" THEN FALSE
    ELSE obj # Null /\ obj = user_id

\* ApplicationAcl::allows
Allows(roles, user_id, resource, action, checker, obj) ==
    Cardinality(
        {p \in UNION {Acls(roles[k]) : k \in 1..Len(roles)} :
            /\ p.resource = resource
            /\ p.action = action \/ p.action = "All"
            /\ IsInScope(checker, user_id, p.scope, obj)}) > 0

\* the role lists of a caller
RoleLists ==
    {<<>>} \cup {<<r>> : r \in BillingRoles}
           \cup {rs \in BillingRoles \X BillingRoles : rs[1] # rs[2]}

\* the calls of allows that are looked at
AllowsCalls ==
    [fn : {"allows"},
     args : [roles : RoleLists, user_id : UserIds, resource : Resources,
             action : Actions, checker : ScopeCheckers,
             obj : UserIds \cup {Null}],
     out : {"none"}]

\* one call of allows
CallAllows ==
    /\ calc.fn = "allows"
    /\ calc.out = "none"
    /\ calc' = [calc EXCEPT !.out =
                    IF Allows(calc.args.roles, calc.args.user_id,
                              calc.args.resource, calc.args.action,
                              calc.args.checker, calc.args.obj)
                    THEN "true" ELSE "false"]
    /\ UNCHANGED <<now, invoices, orders, rates, txs, intents, journal, task,
                   reply, requests, worker, config, fees>>

InitAcl == Boot /\ calc \in AllowsCalls

NextAcl == CallAllows

SpecAcl == InitAcl /\ [][NextAcl]_vars

\* ------------------------------------------------------------------ claims
\* C1: whenever a correctly signed delivery repeats an (account,
\* transaction) that has already been captured, its capture adds nothing to
\* amount_captured, stores no second transaction, takes the AlreadyApplied
\* path and goes on with the invoice of the account instead of failing.
C1_IdempotentCapture ==
    \A cb \in Callbacks :
        (/\ CaptureCheck(cb, Sign("good", cb)) = "ok"
         /\ config.payments
         /\ Captured(ResolveAccount(cb), cb.tx))
        => \A s \in {CaptureSession(cb, Sign("good", cb))} :
               /\ s.invoices = invoices
               /\ s.txs = txs
               /\ s.path = "AlreadyApplied"
               /\ s.result \in {"go", "ok"}
               /\ s.inv = GetByAccountId(ResolveAccount(cb))

\* a duplicate delivery went down the AlreadyApplied path
C1_Witness ==
    \E t \in Tasks : task[t].pc = "load" /\ task[t].path = "AlreadyApplied"

C3_MonotonePaid ==
    [][\A i \in InvoiceIds :
          (invoices[i].exists /\ invoices[i].paid_at # Null
               /\ invoices'[i].exists)
          => /\ invoices'[i].paid_at = invoices[i].paid_at
             /\ invoices'[i].final_amount_paid = invoices[i].final_amount_paid
             /\ invoices'[i].final_cashback_amount
                    = invoices[i].final_cashback_amount]_vars

\* a paid invoice whose paid detection ran again at a later time
C3_Witness ==
    \E i \in InvoiceIds :
        /\ invoices[i].paid_at # Null
        /\ invoices[i].paid_at < now
        /\ reply.op \in {"hit", "recalc"} /\ reply.result = "ok"
        /\ \E t \in Tasks : task[t].pc = "detect" /\ task[t].inv = i

\* C4: every order has at most one exchange-rate row with status Active.
C4_ActiveRateUnique ==
    \A o \in OrderIds : Cardinality(ActiveRows(rates[o])) <= 1

\* a webhook and a recalc refresh the rate of the same order at the same
\* time: one has stored its new rate, the other is about to
C4_Witness ==
    \E o \in OrderIds, t1, t2 \in Tasks :
        /\ task[t1].pc = "save" /\ task[t2].pc = "detect"
        /\ task[t1].op # task[t2].op
        /\ \E k \in 1..Len(task[t1].news) : task[t1].news[k].order_id = o
        /\ orders[o].invoice_id = task[t2].inv
        /\ Len(rates[o]) >= 2
        /\ Cardinality(ActiveRows(rates[o])) = 1

\* C5: a step marks an unpaid invoice as paid, or publishes InvoicePaid for
\* it, only if before the step no rate of the invoice is missing and its
\* captured amount in buyer super-units is at least its total price.
C5_PaidGuard ==
    [][\A i \in InvoiceIds :
          (/\ invoices[i].exists /\ invoices[i].paid_at = Null
           /\ invoices'[i].exists
           /\ \/ invoices'[i].paid_at # Null
              \/ Cardinality(EventsIn(journal', "InvoicePaid", i))
                    > Cardinality(EventsIn(journal, "InvoicePaid", i)))
          => /\ ~HasMissingRates(i)
             /\ ToSuperUnit(invoices[i].amount_captured,
                            invoices[i].buyer_currency) >= TotalPrice(i)]_vars

\* a partial payment went through the paid detection and left the invoice
\* unpaid
C5_Witness ==
    \E i \in InvoiceIds :
        /\ invoices[i].exists /\ invoices[i].paid_at = Null
        /\ invoices[i].amount_captured > 0
        /\ ToSuperUnit(invoices[i].amount_captured,
                       invoices[i].buyer_currency) < TotalPrice(i)
        /\ EventsOf("InvoicePaid", i) = {}
        /\ reply = [op |-> "hit", path |-> "Applied", result |-> "ok"]
        /\ \A t \in Tasks : task[t].pc = "done"

AllOrNone(inv) ==
    \/ /\ inv.paid_at = Null /\ inv.final_amount_paid = Null
       /\ inv.final_cashback_amount = Null
    \/ /\ inv.paid_at # Null /\ inv.final_amount_paid # Null
       /\ inv.final_cashback_amount # Null

\* C6: after every step the three paid fields of an invoice are all null or
\* all set, and a step sets them exactly when it adds the InvoicePaid event
\* of the invoice to the journal: a failed enqueue leaves the invoice unpaid.
C6_AtomicPaid ==
    [][\A i \in InvoiceIds :
          /\ AllOrNone(invoices'[i])
          /\ (invoices[i].exists /\ invoices'[i].exists) =>
                ((invoices[i].paid_at = Null /\ invoices'[i].paid_at # Null)
                 <=> Cardinality(EventsIn(journal', "InvoicePaid", i))
                        = Cardinality(EventsIn(journal, "InvoicePaid", i)) + 1)
       ]_vars

\* a paid invoice: the three fields set, its InvoicePaid event published
C6_Witness ==
    \E i \in InvoiceIds :
        /\ invoices[i].paid_at # Null
        /\ invoices[i].final_amount_paid # Null
        /\ invoices[i].final_cashback_amount # Null
        /\ Cardinality(EventsOf("InvoicePaid", i)) = 1
        /\ \A t \in Tasks : task[t].pc = "done"

\* C7: a tick of the consumer whose DB session succeeds returns every
\* InProgress entry whose lease has expired to Pending (the entry is Pending
\* after the tick, or is the one entry the same tick takes again with a fresh
\* lease), and no step returns an InProgress entry to Pending while its
\* lease has not expired.
C7_LeaseProgress ==
    [][\A k \in 1..Len(journal) :
          journal[k].status = "InProgress" =>
             IF LeaseExpired(journal[k])
             THEN Tick(TRUE) =>
                    \/ journal'[k].status = "Pending"
                    \/ /\ journal'[k].status = "InProgress"
                       /\ journal'[k].lease_until = now + LeaseTime
                       /\ journal'[k].attempts = journal[k].attempts + 1
                       /\ worker'.entry = k
             ELSE /\ Len(journal') >= k
                  /\ journal'[k].status # "Pending"
                  /\ journal'[k].status = "InProgress" =>
                        journal'[k] = journal[k]]_vars

\* an entry that was left InProgress has been taken a second time
C7_Witness ==
    \E k \in 1..Len(journal) :
        /\ journal[k].attempts >= 2
        /\ journal[k].status = "InProgress"
        /\ worker.pc = "handling" /\ worker.entry = k

\* the signature of delivery d does not verify under the configured key
BadSignature(d) == d[2] # "good" \/ config.sign_public_key # "psp"

\* C8: with the payments integration configured, a crypto webhook whose
\* signature does not verify (body mutated after signing, signature made
\* with another key, malformed signature, malformed public key) is answered
\* with Forbidden, whatever the state of the ledger, and its DB session
\* writes no row.
C8_SignatureRejected ==
    \A d \in Deliveries :
        (config.payments /\ BadSignature(d))
        => \A s \in {CaptureSession(d[1], Sign(d[2], d[1]))} :
               /\ s.result = "Forbidden"
               /\ s.invoices = invoices
               /\ s.txs = txs

\* a webhook was rejected while an invoice was waiting for its payment
C8_Witness ==
    /\ reply.result = "Forbidden"
    /\ \E i \in InvoiceIds : invoices[i].exists /\ invoices[i].account_id # Null

\* the account of the callback cannot be resolved
Unresolved(cb) == ResolveAccount(cb) = Null

\* the account of the callback is linked to no invoice
Unlinked(cb) ==
    ResolveAccount(cb) # Null /\ LinkedInvoices(ResolveAccount(cb)) = {}

\* C9 as stated: a correctly signed crypto webhook whose account cannot be
\* resolved, or whose account is linked to no invoice, completes
\* successfully and writes no row.
C9_UnknownTarget_AsStated ==
    \A cb \in Callbacks :
        (/\ config.payments /\ config.sign_public_key = "psp"
         /\ Unresolved(cb) \/ Unlinked(cb))
        => \A s \in {CaptureSession(cb, Sign("good", cb))} :
               /\ s.result = "ok"
               /\ s.invoices = invoices
               /\ s.txs = txs

\* C9: a correctly signed crypto webhook whose account cannot be resolved,
\* or whose account is linked to no invoice and whose amount is a number,
\* completes successfully and writes no row; for an unlinked account and an
\* amount that is not a number it fails with Internal, again without
\* writing a row.
C9_UnknownTarget ==
    \A cb \in Callbacks :
        (/\ config.payments /\ config.sign_public_key = "psp"
         /\ Unresolved(cb) \/ Unlinked(cb))
        => \A s \in {CaptureSession(cb, Sign("good", cb))} :
               /\ s.result = IF Unlinked(cb) /\ cb.amount = Null
                             THEN "Internal" ELSE "ok"
               /\ s.invoices = invoices
               /\ s.txs = txs

\* a webhook for an unknown target was answered with success while an
\* invoice was waiting for its payment
C9_Witness ==
    /\ reply = [op |-> "hit", path |-> "none", result |-> "ok"]
    /\ \E i \in InvoiceIds : invoices[i].exists /\ invoices[i].account_id # Null

\* C10 as stated: once no create_invoice_v2 for an invoice id is in flight,
\* a PaymentExpired entry for the invoice exists if and only if the invoice
\* row exists.
C10_CreateAtomic_AsStated ==
    \A i \in InvoiceIds :
        (\A t \in Tasks : ~(task[t].op = "create" /\ task[t].inv = i))
        => (EventsOf("PaymentExpired", i) # {} <=> invoices[i].exists)

\* C11: a create_invoice_v2 that succeeds appends exactly one entry to the
\* journal in its DB session, the Pending PaymentExpired event of the
\* invoice, scheduled for the time of the session plus the fiat timeout in
\* the card flow (fiat buyer) and plus the crypto timeout in the crypto flow;
\* the invoice it inserts has amount_captured 0 and no paid fields, an
\* account exactly in the crypto flow and a linked payment intent (one row)
\* exactly in the card flow.
C11_ExpiryScheduled ==
    [][\A t \in Tasks :
          (/\ task[t].op = "create" /\ task[t].pc = "commit"
           /\ task'[t].pc = "done"
           /\ reply'.op = "create" /\ reply'.result = "ok")
          => /\ journal' = Append(journal,
                    [kind |-> "PaymentExpired", ref |-> task[t].inv,
                     scheduled_for |->
                         now + (IF IsFiat(task[t].buyer) THEN FiatTimeout
                                ELSE CryptoTimeout),
                     status |-> "Pending", attempts |-> 0,
                     lease_until |-> Null])
             /\ ~invoices[task[t].inv].exists
             /\ invoices'[task[t].inv].exists
             /\ invoices'[task[t].inv].buyer_currency = task[t].buyer
             /\ invoices'[task[t].inv].amount_captured = 0
             /\ invoices'[task[t].inv].paid_at = Null
             /\ invoices'[task[t].inv].final_amount_paid = Null
             /\ invoices'[task[t].inv].final_cashback_amount = Null
             /\ invoices'[task[t].inv].account_id # Null
                    <=> ~IsFiat(task[t].buyer)
             /\ Cardinality({p \in intents' : p.invoice_id = task[t].inv})
                    = (IF IsFiat(task[t].buyer) THEN 1 ELSE 0)
             /\ Cardinality(intents') = Cardinality(intents)
                    + (IF IsFiat(task[t].buyer) THEN 1 ELSE 0)]_vars

\* a card-flow invoice has just been created: its payment intent is stored
\* and its expiry is the last entry of the journal
C11_Witness ==
    /\ reply.op = "create" /\ reply.result = "ok"
    /\ \E i \in InvoiceIds :
          /\ invoices[i].exists /\ invoices[i].account_id = Null
          /\ \E p \in intents : p.invoice_id = i
          /\ Len(journal) >= 1
          /\ journal[Len(journal)].kind = "PaymentExpired"
          /\ journal[Len(journal)].ref = i
          /\ journal[Len(journal)].scheduled_for = now + FiatTimeout

\* the ledger: every table of the database
ledger == <<invoices, orders, rates, txs, intents, journal, fees>>

\* order k of the list pairs a fiat seller with another fiat buyer
FiatMismatch(buyer, ords, k) ==
    IsFiat(buyer) /\ IsFiat(ords[k].currency) /\ buyer # ords[k].currency

\* order k of the list pairs a fiat currency with a crypto currency
FiatCrypto(buyer, ords, k) == IsFiat(buyer) # IsFiat(ords[k].currency)

\* the first order of the list that cannot be priced (0: none)
FirstUnpriced(buyer, ords) ==
    IF \E k \in 1..Len(ords) :
           FiatMismatch(buyer, ords, k) \/ FiatCrypto(buyer, ords, k)
    THEN CHOOSE k \in 1..Len(ords) :
             /\ FiatMismatch(buyer, ords, k) \/ FiatCrypto(buyer, ords, k)
             /\ \A j \in 1..(k - 1) :
                    ~(FiatMismatch(buyer, ords, j) \/ FiatCrypto(buyer, ords, j))
    ELSE 0

\* an order whose seller currency is the buyer currency of its invoice has
\* the one rate row it was created with: rate 1, no exchange id
DummyRates(os, is, rs) ==
    \A o \in OrderIds :
        (os[o].exists /\ os[o].seller_currency = is[os[o].invoice_id].buyer_currency)
        => rs[o] = <<[exchange_id |-> Null, rate |-> 1, status |-> "Active"]>>

\* C19 as stated: with the payments integration configured, a
\* create_invoice_v2 fails with Validation if any order has a fiat seller
\* currency different from a fiat buyer currency and with Internal if any
\* order pairs a fiat with a crypto currency, writing nothing in both cases.
C19_CurrencyValidation_AsStated ==
    [][\A t \in Tasks, id \in InvoiceIds, buyer \in BuyerCurrencies,
          ords \in CreateOrders :
          (config.payments /\ CreatePrepare(t, id, buyer, ords))
          => /\ (\E k \in 1..Len(ords) : FiatMismatch(buyer, ords, k))
                   => /\ reply'.result = "Validation"
                      /\ task'[t] = IdleTask /\ UNCHANGED ledger
             /\ (\E k \in 1..Len(ords) : FiatCrypto(buyer, ords, k))
                   => /\ reply'.result = "Internal"
                      /\ task'[t] = IdleTask /\ UNCHANGED ledger]_vars

\* C19: with the payments integration configured, a create_invoice_v2 whose
\* list holds an order that cannot be priced fails with the error of the
\* first such order in the list - Validation for a fiat seller currency
\* different from a fiat buyer currency, Internal for a fiat currency paired
\* with a crypto currency - and neither reserves a payment intent or an
\* account nor writes a row; an order whose currency is the buyer currency
\* is priced with rate 1 and no exchange id, and that is the rate row it is
\* stored with.
C19_CurrencyValidation ==
    [][/\ \A t \in Tasks, id \in InvoiceIds, buyer \in BuyerCurrencies,
             ords \in CreateOrders :
             (config.payments /\ CreatePrepare(t, id, buyer, ords))
             => \A f \in {FirstUnpriced(buyer, ords)} :
                  IF f # 0
                  THEN /\ reply'.op = "create"
                       /\ reply'.result =
                              (IF FiatMismatch(buyer, ords, f)
                               THEN "Validation" ELSE "Internal")
                       /\ task'[t] = IdleTask
                       /\ UNCHANGED ledger
                  ELSE task'[t].pc = "commit" =>
                         \A k \in 1..Len(ords) :
                            ords[k].currency = buyer =>
                               /\ task'[t].priced[k].rate = 1
                               /\ task'[t].priced[k].exchange_id = Null
       /\ DummyRates(orders', invoices', rates')]_vars

\* a request was refused with Validation and nothing has been written
C19_Witness ==
    /\ reply.op = "create" /\ reply.result = "Validation"
    /\ \A t \in Tasks : task[t].pc = "done"
    /\ \A i \in InvoiceIds : ~invoices[i].exists
    /\ intents = {} /\ journal = <<>>

\* the three paid fields of an invoice row
PaidFields(inv) ==
    <<inv.paid_at, inv.final_amount_paid, inv.final_cashback_amount>>

\* C20: a correctly signed crypto webhook for an account whose invoice has
\* paid_at set is answered with success at the end of its first DB session:
\* the session leaves the paid fields of the invoice as they are, the
\* request never enters the rate refresh (no task goes on to load the
\* rates of a paid invoice, so no PSP call, no new rate and no paid
\* detection follow), and the step changes no rate row and no journal entry.
C20_PaidWebhook ==
    [][/\ \A cb \in Callbacks :
             (/\ config.payments
              /\ CaptureCheck(cb, Sign("good", cb)) = "ok"
              /\ invoices[GetByAccountId(ResolveAccount(cb))].paid_at # Null)
             => \A s \in {CaptureSession(cb, Sign("good", cb))} :
                  /\ s.result = "ok"
                  /\ s.path \in {"Applied", "AlreadyApplied"}
                  /\ PaidFields(s.invoices[GetByAccountId(ResolveAccount(cb))])
                       = PaidFields(invoices[GetByAccountId(ResolveAccount(cb))])
       /\ \A t \in Tasks :
             (task[t].pc = "done" /\ task'[t].pc = "load")
             => /\ invoices[task'[t].inv].paid_at = Null
                /\ invoices'[task'[t].inv].paid_at = Null
       /\ (/\ requests' # requests
           /\ \/ reply'.op = "hit" /\ task' = task
              \/ \E t \in Tasks : task[t].pc = "done" /\ task'[t].pc = "load")
          => UNCHANGED <<rates, journal>>]_vars

\* a webhook brought a further transaction to the account of an invoice
\* that had been paid before and was answered with success
C20_Witness ==
    /\ reply = [op |-> "hit", path |-> "Applied", result |-> "ok"]
    /\ requests = MaxRequests
    /\ \A t \in Tasks : task[t].pc = "done"
    /\ \E i \in InvoiceIds :
          /\ invoices[i].paid_at # Null
          /\ invoices[i].paid_at < now
          /\ Cardinality(EventsOf("InvoicePaid", i)) = 1
          /\ Cardinality({x \in txs : x.account = invoices[i].account_id}) = 2
          /\ invoices[i].amount_captured > invoices[i].final_amount_paid

\* the entries a step takes for processing
Dequeued(j, j2) ==
    {k \in 1..Len(j) :
        /\ j2[k].status = "InProgress"
        /\ j[k].status # "InProgress" \/ j2[k].attempts # j[k].attempts}

\* entry e may be delivered at time t
DueAt(e, t) == e.scheduled_for = Null \/ e.scheduled_for <= t

\* C12: a step of the consumer takes at most one entry for processing; the
\* entry it takes is Pending at the dequeue (Pending before the tick, or
\* InProgress with an expired lease and returned to Pending by the reset of
\* the same tick) and its scheduled_for is null or not after now; the entry
\* handed to the handler is the entry taken, it is InProgress from the
\* dequeue on, and the handler never holds an entry before its
\* scheduled_for time.
C12_ScheduledDelivery ==
    [][/\ Cardinality(Dequeued(journal, journal')) <= 1
       /\ \A k \in Dequeued(journal, journal') :
             /\ \/ journal[k].status = "Pending"
                \/ journal[k].status = "InProgress" /\ LeaseExpired(journal[k])
             /\ DueAt(journal[k], now)
             /\ worker'.pc = "handling" /\ worker'.entry = k
       /\ (worker'.pc = "handling"
              /\ (worker.pc # "handling" \/ worker'.entry # worker.entry))
          => worker'.entry \in Dequeued(journal, journal')
       /\ worker'.pc = "handling"
          => /\ journal'[worker'.entry].status = "InProgress"
             /\ DueAt(journal'[worker'.entry], now')]_vars

\* a scheduled entry is with its handler, at its time, after a younger
\* unscheduled entry was delivered ahead of it
C12_Witness ==
    /\ worker.pc = "handling" /\ worker.entry = 1
    /\ Len(journal) = 2
    /\ journal[1].kind = "PaymentExpired"
    /\ journal[1].scheduled_for # Null /\ journal[1].scheduled_for <= now
    /\ journal[1].status = "InProgress" /\ journal[1].attempts = 1
    /\ journal[2].scheduled_for = Null /\ journal[2].status = "Completed"

Terminal == {"Completed", "Failed"}

\* C13: the completion session of the loop, when its write succeeds, makes
\* the dispatched entry Completed if the handler succeeded and Failed if it
\* returned an error; nothing else makes an entry Completed or Failed; and a
\* Completed or Failed entry is never changed, taken or handled again.
C13_EventOutcome ==
    [][/\ Complete(TRUE)
          => /\ journal[worker.entry].status = "InProgress"
             /\ journal' = [journal EXCEPT ![worker.entry].status =
                                IF worker.result = "ok" THEN "Completed"
                                ELSE "Failed"]
       /\ \A k \in 1..Len(journal) :
             /\ (journal[k].status \notin Terminal
                    /\ journal'[k].status \in Terminal)
                => /\ worker.pc = "completing" /\ worker.entry = k
                   /\ worker'.pc = "idle"
                   /\ journal'[k].status =
                          (IF worker.result = "ok" THEN "Completed"
                           ELSE "Failed")
             /\ journal[k].status \in Terminal
                => /\ journal'[k] = journal[k]
                   /\ k \notin Dequeued(journal, journal')
                   /\ ~(worker'.pc # "idle" /\ worker'.entry = k)]_vars

\* one entry ended Failed and one Completed, and ticks went on after that
C13_Witness ==
    /\ worker.pc = "idle" /\ worker.result = "ok"
    /\ \E k, m \in 1..Len(journal) :
          /\ journal[k].status = "Failed" /\ journal[k].attempts = 1
          /\ journal[m].status = "Completed"
    /\ now > LeaseTime

\* C14: a tick starts - an entry is taken, the handler gets an entry - only
\* when the loop is idle, that is when the dequeue, the handler and the
\* completion write of the previous tick have finished; and while the worker
\* holds an entry, that entry is InProgress and is neither reset nor taken
\* again: it stays as it is until the worker's own completion write.
C14_SingleWorker ==
    [][/\ Dequeued(journal, journal') # {} => worker.pc = "idle"
       /\ (worker'.pc # "idle"
              /\ (worker.pc = "idle" \/ worker'.entry # worker.entry))
          => worker.pc = "idle" /\ worker'.pc = "handling"
       /\ worker.pc # "idle"
          => /\ journal[worker.entry].status = "InProgress"
             /\ \/ journal'[worker.entry] = journal[worker.entry]
                \/ /\ worker.pc = "completing" /\ worker'.pc = "idle"
                   /\ journal'[worker.entry] =
                          [journal[worker.entry] EXCEPT !.status =
                              journal'[worker.entry].status]
                   /\ journal'[worker.entry].status \in Terminal]_vars

\* the worker is busy with an entry while another entry is Pending and due
C14_Witness ==
    /\ worker.pc = "handling"
    /\ \E m \in Due(journal) : m # worker.entry

\* --------------------------------------------------------------------- C16
\* a delivery of the card PSP is verified when its signature was made with
\* the shared secret over the payload sent, and the payload parses
Verified(d) == d[2] = "good" /\ d[1].wf

\* journal j with exactly one entry more: a Pending, unscheduled event of
\* the kind for the payment intent
OneMore(j, kind, pid) ==
    /\ Len(j) = Len(journal) + 1
    /\ SubSeq(j, 1, Len(journal)) = journal
    /\ j[Len(j)] = NewEntry(kind, pid, Null)

\* C16: in every state, for every delivery of the card PSP: a verified
\* payment_intent.amount_capturable_updated whose event is stored adds
\* exactly one entry (PaymentIntentSucceeded) and a verified
\* payment_intent.payment_failed exactly one PaymentIntentPaymentFailed
\* entry, both answered ok; a verified delivery of any other type adds
\* nothing and is answered ok; a delivery whose signature or payload does
\* not verify adds nothing and is answered with an error
C16_CardRouting ==
    \A d \in StripeDeliveries, db_ok \in BOOLEAN :
        \E s \in {StripeSession(d[1], StripeSign(d[2], d[1]), db_ok)} :
            /\ ~Verified(d) => s.result = "Internal" /\ s.journal = journal
            /\ (Verified(d) /\ d[1].object = "payment_intent" /\ db_ok
                   /\ d[1].type = CapturableUpdated)
               => /\ s.result = "ok"
                  /\ OneMore(s.journal, "PaymentIntentSucceeded", d[1].id)
            /\ (Verified(d) /\ d[1].object = "payment_intent" /\ db_ok
                   /\ d[1].type = PaymentFailed)
               => /\ s.result = "ok"
                  /\ OneMore(s.journal, "PaymentIntentPaymentFailed",
                             d[1].id)
            /\ (Verified(d)
                   /\ d[1].type \notin {CapturableUpdated, PaymentFailed})
               => s.result = "ok" /\ s.journal = journal

\* a verified amount_capturable_updated webhook was answered ok and its
\* event is in the journal
C16_Witness ==
    /\ reply.op = "stripe" /\ reply.result = "ok"
    /\ reply.path = "PaymentIntentSucceeded"
    /\ \E k \in 1..Len(journal) :
          journal[k].kind = "PaymentIntentSucceeded" /\ journal[k].ref = 1

\* --------------------------------------------------------------------- C17
\* C17 as stated: every fee row has amount = order.total_amount x
\* fee.order_percent / 100 in minor units of the seller currency, status
\* NotPaid and the seller currency of its order
C17_FeeAmount_AsStated ==
    \A k \in 1..Len(fees) :
        /\ fees[k].amount
              = (orders[fees[k].order_id].total_amount * FeeOrderPercent)
                   \div HundredPercents
        /\ fees[k].status = "NotPaid"
        /\ fees[k].currency = orders[fees[k].order_id].seller_currency

\* --------------------------------------------------------------------- C18
\* C18 as stated: however often the success of a payment intent is handled,
\* each order of its invoice has at most one fee row
C18_OneFeePerOrder_AsStated ==
    \A o \in OrderIds : Cardinality(FeesOf(fees, o)) <= 1

\* --------------------------------------------------------------------- C15
\* the invoices that are paid
PaidInvoices == {i \in InvoiceIds : invoices[i].exists /\ invoices[i].paid_at # Null}

C21_PaidRecalcReadOnly ==
    [][\A t \in Tasks, i \in PaidInvoices, remote_ok \in BOOLEAN :
          RecalcLoad(t, i, remote_ok)
          => /\ UNCHANGED ledger
             /\ task'[t] = IdleTask
             /\ reply' = [op |-> "recalc", path |-> "Paid", result |-> "ok"]
             /\ TotalPrice(i)' = TotalPrice(i)
             /\ TotalCashback(i)' = TotalCashback(i)]_vars

\* a recalc of a paid invoice was answered
C21_Witness ==
    /\ reply = [op |-> "recalc", path |-> "Paid", result |-> "ok"]
    /\ PaidInvoices # {}

\* --------------------------------------------------------------------- C22
\* the rows of invoice i are gone: the invoice, its orders, their rates and
\* its payment intent
Gone(i, os) ==
    /\ ~invoices[i].exists
    /\ IntentsOfInvoice(i) = {}
    /\ \A o \in os : ~orders[o].exists /\ rates[o] = <<>>

\* C22: the DB session of a delete either removes the invoice, all its
\* orders, all their rates and its payment intent, or changes no row and
\* answers with an error; the request goes on to cancel_payment_intent only
\* from a session that removed everything and deleted that payment intent;
\* and the cancel step, whether the card PSP answers or fails, changes no
\* row; no step of a delete touches the rows of another invoice or the
\* journal
C22_DeleteAtomic ==
    [][/\ \A t \in Tasks, i \in InvoiceIds, db_ok \in BOOLEAN :
             DeleteTx(t, i, db_ok)
             => \/ /\ invoices[i].exists
                   /\ \E os \in {OrdersOf(i)} : Gone(i, os)'
                   /\ \E p \in IntentsOfInvoice(i) :
                         /\ task'[t].pc = "cancel" /\ task'[t].intent = p.id
                         /\ intents' = intents \ {p}
                   /\ \A o \in OrderIds \ OrdersOf(i) :
                         orders'[o] = orders[o] /\ rates'[o] = rates[o]
                   /\ \A j \in InvoiceIds \ {i} : invoices'[j] = invoices[j]
                   /\ UNCHANGED <<txs, journal, fees, calc>>
                \/ /\ UNCHANGED ledger
                   /\ task'[t].pc = "done"
                   /\ reply'.result = "Internal"
       /\ \A t \in Tasks :
             (task'[t].pc = "cancel" /\ task[t].pc # "cancel")
             => /\ \E i \in InvoiceIds :
                      /\ task'[t].inv = i
                      /\ \E os \in {OrdersOf(i)} : Gone(i, os)'
                /\ \E p \in intents \ intents' : p.id = task'[t].intent
       /\ \A t \in Tasks, remote_ok \in BOOLEAN :
             DeleteCancel(t, remote_ok) => UNCHANGED ledger]_vars

\* the cancel at the card PSP failed after a delete: the rows stay deleted
\* (the journal still has the expiry of the invoice that was created)
C22_Witness ==
    /\ reply = [op |-> "delete", path |-> "cancel", result |-> "Internal"]
    /\ \E i \in InvoiceIds :
          /\ Gone(i, OrderIds)
          /\ EventsOf("PaymentExpired", i) # {}

\* --------------------------------------------------------------------- C23
\* the rate rows of order o that are Active, and those that are Expired
ActiveRates(o) ==
    {rates[o][k] : k \in {j \in 1..Len(rates[o]) : rates[o][j].status = "Active"}}

ExpiredRates(o) ==
    {rates[o][k] : k \in {j \in 1..Len(rates[o]) : rates[o][j].status = "Expired"}}

\* the price of an invoice in buyer super-units under a choice r of one rate
\* row per order
RECURSIVE PriceUnder(_, _)
PriceUnder(os, r) ==
    IF os = {} THEN 0
    ELSE LET o == CHOOSE x \in os : TRUE
         IN  BdDiv(ToSuperUnit(orders[o].total_amount,
                               orders[o].seller_currency), r[o].rate)
             + PriceUnder(os \ {o}, r)

RECURSIVE SuperSum(_)
SuperSum(os) ==
    IF os = {} THEN 0
    ELSE LET o == CHOOSE x \in os : TRUE
         IN  ToSuperUnit(orders[o].total_amount, orders[o].seller_currency)
             + SuperSum(os \ {o})

\* the invoices of the fiat path whose orders are all in the buyer currency
SameFiat ==
    {i \in InvoiceIds :
        /\ invoices[i].exists /\ IsFiat(invoices[i].buyer_currency)
        /\ \A o \in OrdersOf(i) :
              orders[o].seller_currency = invoices[i].buyer_currency}

\* C24: in every state, for every invoice of the fiat path whose orders are
\* in the buyer currency, the total_price the pricing engine computes from
\* the stored rows (what create_invoice_v2 and a recalculation return) is
\* the sum of the order totals in super-units, and no rate is missing
C24_PricingRoundTrip ==
    \A i \in SameFiat :
        /\ ~HasMissingRates(i)
        /\ TotalPrice(i) = SuperSum(OrdersOf(i))

\* a recalculation of an unpaid card invoice with two orders (1.50 and
\* 1.00) was answered: its total is 2.50
C24_Witness ==
    /\ reply = [op |-> "recalc", path |-> "none", result |-> "ok"]
    /\ \E i \in SameFiat :
          /\ Cardinality(OrdersOf(i)) = 2
          /\ invoices[i].paid_at = Null
          /\ TotalPrice(i) = 25000

\* --------------------------------------------------------------------- C25
\* the sum of the totals of the orders of a request, in minor units (the
\* exchange rate of the card flow is 1)
RECURSIVE MinorSum(_)
MinorSum(ords) ==
    IF ords = <<>> THEN 0
    ELSE FromSuperUnit(Head(ords).currency, Head(ords).total_amount)
         + MinorSum(Tail(ords))

\* C25: a create_invoice_v2 of the card flow whose orders are priced either
\* goes on with payment-intent parameters whose amount is the sum of the
\* order totals in minor units of the buyer currency, whose currency is the
\* buyer currency, source type Card and capture Automatic, or (the sum is
\* above what the unsigned integer holds, or the PSP fails) ends there with
\* Internal and no row written; and the payment intent row a create stores
\* carries that amount and currency
C25_IntentAmount ==
    [][/\ \A t \in Tasks, id \in InvoiceIds, ords \in EventOrders,
            buyer \in {b \in BuyerCurrencies : IsFiat(b)} :
             (config.payments /\ PricingError(buyer, ords) = "none"
                /\ CreatePrepare(t, id, buyer, ords))
             => /\ UNCHANGED ledger
                /\ IF MinorSum(ords) <= U64Max /\ task'[t].pc = "commit"
                   THEN PaymentIntentCreateParams(task'[t].priced,
                                                  task'[t].buyer)
                          = [allowed_source_types |-> <<"Card">>,
                             amount |-> MinorSum(ords),
                             currency |-> buyer,
                             capture_method |-> "Automatic"]
                   ELSE /\ task'[t] = IdleTask
                        /\ reply' = [op |-> "create", path |-> "none",
                                     result |-> "Internal"]
       /\ \A p \in intents' \ intents :
             \E t \in Tasks :
                /\ task[t].pc = "commit" /\ task[t].intent = p.id
                /\ p.currency = task[t].buyer
                /\ p.amount = SumSeq([k \in 1..Len(task[t].priced) |->
                                         task[t].priced[k].total_amount])]_vars

\* a card invoice with two orders of 1.50 and 1.00 EUR was created: its
\* payment intent has amount 250 and currency EUR
C25_Witness ==
    /\ reply = [op |-> "create", path |-> "none", result |-> "ok"]
    /\ \E p \in intents :
          /\ p.amount = 250 /\ p.currency = "EUR"
          /\ Cardinality(OrdersOf(p.invoice_id)) = 2
\* C26: while the payments integration is not configured, create_invoice_v2,
\* handle_inbound_tx and the rate refresh of recalc_invoice_v2 (an unpaid
\* invoice with a crypto buyer) answer Internal at once, whatever the remote
\* services would have said: no row and no journal entry changes and the
\* request has no further step.
C26_ConfigMissing ==
    [][~config.payments =>
        /\ \A t \in Tasks, id \in InvoiceIds, buyer \in BuyerCurrencies,
              ords \in CreateOrders :
              CreatePrepare(t, id, buyer, ords) =>
                 /\ UNCHANGED ledger
                 /\ task'[t] = IdleTask
                 /\ reply' = [op |-> "create", path |-> "none",
                              result |-> "Internal"]
        /\ \A t \in Tasks, d \in Deliveries :
              HitCapture(t, d[1], Sign(d[2], d[1])) =>
                 /\ UNCHANGED ledger
                 /\ task'[t] = IdleTask
                 /\ reply' = [op |-> "hit", path |-> "none",
                              result |-> "Internal"]
        /\ \A t \in Tasks, i \in InvoiceIds, remote_ok \in BOOLEAN :
              (/\ RecalcLoad(t, i, remote_ok)
               /\ invoices[i].exists
               /\ ~AlreadyPaid(invoices[i])
               /\ ~IsFiat(invoices[i].buyer_currency)) =>
                 /\ UNCHANGED ledger
                 /\ task'[t] = IdleTask
                 /\ reply' = [op |-> "recalc", path |-> "none",
                              result |-> "Internal"]]_vars

\* after a start without the payments integration, the recalc of an unpaid
\* crypto invoice that an earlier deployment created has been refused
C26_Witness ==
    /\ ~config.payments
    /\ reply = [op |-> "recalc", path |-> "none", result |-> "Internal"]
    /\ \E i \in InvoiceIds :
          /\ invoices[i].exists
          /\ invoices[i].paid_at = Null
          /\ ~IsFiat(invoices[i].buyer_currency)

\* C27 as stated: create_crypto_fee fails with Internal when the pair has no
\* exchange rate, and otherwise returns a NotPaid fee in the fee currency
\* whose amount is order_percent percent of the order total converted to
\* super-units, divided by the rate and converted to minor units of the fee
\* currency, with the order's seller currency and total_amount recorded as
\* crypto_currency and crypto_amount.
C27_CryptoFee_AsStated ==
    (calc.fn = "create_crypto_fee" /\ calc.out.result # "none") =>
        LET a == calc.args
            rate == a.info[a.order.seller_currency][a.fee_currency]
            converted ==
                FromSuperUnit(a.fee_currency,
                    ToSuperUnit(a.order.total_amount, a.order.seller_currency)
                        \div rate)
        IN  IF rate = Null THEN calc.out.result = "Internal"
            ELSE /\ calc.out.result = "ok"
                 /\ calc.out.fee.amount
                       = (converted * a.order_percent) \div 100
                 /\ calc.out.fee.status = "NotPaid"
                 /\ calc.out.fee.currency = a.fee_currency
                 /\ calc.out.fee.crypto_currency = a.order.seller_currency
                 /\ calc.out.fee.crypto_amount = a.order.total_amount

\* the roles of a call
RolesOf(c) == {c.args.roles[k] : k \in 1..Len(c.args.roles)}

\* a role of the call has a permission on the resource for the action (or
\* for All) whose scope check passes
Granted(c) ==
    \E role \in RolesOf(c) : \E p \in Acls(role) :
        /\ p.resource = c.args.resource
        /\ p.action \in {c.args.action, "All"}
        /\ \/ p.scope = "All"
           \/ /\ p.scope = "Owned"
              /\ c.args.checker = "UserRole"
              /\ c.args.obj = c.args.user_id

TxsOf(a) == {x \in txs : x.account = a}

RECURSIVE SumAmounts(_)
SumAmounts(xs) ==
    IF xs = {} THEN 0
    ELSE LET x == CHOOSE y \in xs : TRUE
         IN  x.amount + SumAmounts(xs \ {x})

C30_RateDecision ==
    (calc.fn = "reserve_or_refresh_rate" /\ calc.out.result # "none") =>
        LET a == calc.args
            out == calc.out
            psp_rate == [order_id |-> a.order.id, exchange_id |-> a.psp.id,
                         rate |-> a.psp.rate]
        IN  /\ (/\ a.current_rate.status = "None"
                /\ ~IsFiat(a.order.seller_currency)
                /\ a.buyer_currency # a.order.seller_currency) =>
                   /\ out.calls = <<"get_rate">>
                   /\ a.psp.ok => (out.result = "ok" /\ out.new = psp_rate)
            /\ (/\ a.current_rate.status = "None"
                /\ a.buyer_currency = a.order.seller_currency) =>
                   /\ out.calls = <<>>
                   /\ out.result = "ok"
                   /\ out.new = [order_id |-> a.order.id,
                                 exchange_id |-> Null, rate |-> 1]
            /\ (/\ a.current_rate.status # "None"
                /\ a.current_rate.exchange_id = Null) =>
                   /\ out.calls = <<>>
                   /\ out.result = "ok"
                   /\ out.new = NoNewRate
            /\ (/\ a.current_rate.status # "None"
                /\ a.current_rate.exchange_id # Null) =>
                   /\ out.calls = <<"refresh_rate">>
                   /\ a.psp.ok =>
                         /\ out.result = "ok"
                         /\ out.new = IF a.psp.is_new_rate THEN psp_rate
                                      ELSE NoNewRate

\* a rate of the PSP was refreshed and the PSP answered with a new rate
C30_Witness ==
    /\ calc.fn = "reserve_or_refresh_rate"
    /\ calc.args.current_rate.exchange_id # Null
    /\ calc.args.psp.ok /\ calc.args.psp.is_new_rate
    /\ calc.out.calls = <<"refresh_rate">>
    /\ calc.out.new.exchange_id = calc.args.psp.id

\* C31 as stated: the new rates of one refresh are stored all or none: when
\* the insert of one of them fails, the request ends with an error and every
\* order keeps the rate rows it had.
C31_RatesAtomic_AsStated ==
    [][\A t \in Tasks, k \in 0..MaxOrders :
          (SaveRates(t, k) /\ k < Len(task[t].news)) =>
             /\ rates' = rates
             /\ reply'.result = "Internal"]_vars

\* C32 as stated: no operation calls a remote service while it holds an open
\* DB transaction.
C32_NoRemoteInTx_AsStated ==
    calc.fn = "operation" => ~(calc.in_tx /\ IsRemote(calc.step))

\* C33: a handle_inbound_tx that fails after its capture was recorded leaves
\* the invoice as the capture left it; a correctly signed redelivery of a
\* recorded transaction to an unpaid invoice changes no row, takes the
\* AlreadyApplied path and goes on to the rate refresh; and the paid
\* detection of such a redelivery marks the invoice paid when the captured
\* amount covers the total price, leaving amount_captured as it was.
C33_RetryCompletes ==
    [][\A t \in Tasks :
          /\ (/\ task[t].op = "hit"
              /\ task'[t] = IdleTask
              /\ reply' = [op |-> "hit", path |-> task[t].path,
                           result |-> "Internal"]) =>
                 /\ invoices' = invoices
                 /\ txs' = txs
          /\ \A cb \in Callbacks :
                (/\ HitCapture(t, cb, Sign("good", cb))
                 /\ CaptureCheck(cb, Sign("good", cb)) = "ok"
                 /\ Captured(ResolveAccount(cb), cb.tx)
                 /\ invoices[GetByAccountId(ResolveAccount(cb))].paid_at
                       = Null) =>
                    /\ invoices' = invoices
                    /\ txs' = txs
                    /\ task'[t].pc = "load"
                    /\ task'[t].path = "AlreadyApplied"
                    /\ task'[t].inv = GetByAccountId(ResolveAccount(cb))
          /\ (/\ PaidDetect(t, TRUE)
              /\ task[t].path = "AlreadyApplied"
              /\ invoices[task[t].inv].exists
              /\ HasBecomePaid(task[t].inv)) =>
                 /\ invoices'[task[t].inv].paid_at # Null
                 /\ invoices'[task[t].inv].amount_captured
                       = invoices[task[t].inv].amount_captured
                 /\ reply' = [op |-> "hit", path |-> "AlreadyApplied",
                              result |-> "ok"]]_vars

\* the delivery that recorded the only transaction ended with an error, and
\* its redelivery has reached the paid detection of the still unpaid invoice
\* with the captured amount covering the total price
C33_Witness ==
    /\ Cardinality(txs) = 1
    /\ reply = [op |-> "hit", path |-> "Applied", result |-> "Internal"]
    /\ \E t \in Tasks :
          /\ task[t].op = "hit" /\ task[t].pc = "detect"
          /\ task[t].path = "AlreadyApplied"
          /\ invoices[task[t].inv].paid_at = Null
          /\ HasBecomePaid(task[t].inv)
          /\ \A u \in Tasks \ {t} : task[u].pc = "done"

\* entry m of the journal is Pending at the dequeue of a tick: Pending
\* before it, or InProgress with an expired lease and reset by the tick
PendingAtDequeue(m) ==
    \/ journal[m].status = "Pending"
    \/ journal[m].status = "InProgress" /\ LeaseExpired(journal[m])

Held(k) ==
    /\ Len(journal) >= k
    /\ journal[k].attempts >= 1
    /\ journal[k].status \notin Terminal

IntentDone == calc.fn = "payment_intent_success" /\ calc.out.result # "none"

\* C37: payment_intent_success answers Internal and leaves the fees table
\* as it was when the payment intent is unknown, when it is linked to
\* neither an invoice nor a fee, and when it is linked to both; linked only
\* to an invoice, a successful call appends one NotPaid fee per order of
\* the invoice and changes no other fee; linked only to a fee, a successful
\* call sets the status of that fee to Paid and changes nothing else; a
\* call that fails leaves the fees table as it was.
C37_IntentDispatch ==
    IntentDone =>
       LET a == calc.args
           out == calc.out
       IN  /\ (\/ ~a.intent
               \/ a.invoice_link = Null /\ a.fee_link = Null
               \/ a.invoice_link # Null /\ a.fee_link # Null) =>
                  out.result = "Internal" /\ out.fees = a.fees
           /\ out.result # "ok" => out.result = "Internal" /\ out.fees = a.fees
           /\ (out.result = "ok" /\ a.fee_link = Null) =>
                  /\ out.type = "Invoice"
                  /\ Len(out.fees) = Len(a.fees) + Len(a.orders)
                  /\ \A k \in 1..Len(a.fees) : out.fees[k] = a.fees[k]
                  /\ \A k \in 1..Len(a.orders) :
                        /\ out.fees[Len(a.fees) + k].order_id = a.orders[k].id
                        /\ out.fees[Len(a.fees) + k].status = "NotPaid"
           /\ (out.result = "ok" /\ a.invoice_link = Null) =>
                  /\ out.type = "Fee"
                  /\ Len(out.fees) = Len(a.fees)
                  /\ out.fees[a.fee_link].status = "Paid"
                  /\ \A k \in 1..Len(a.fees) :
                        k # a.fee_link => out.fees[k] = a.fees[k]
                  /\ out.fees[a.fee_link] =
                        [a.fees[a.fee_link] EXCEPT !.status = "Paid"]
           /\ (a.intent /\ a.db_ok /\ a.invoice_link # Null
                /\ a.fee_link = Null /\ a.invoice_exists) =>
                  out.result = "ok"
           /\ (a.intent /\ a.db_ok /\ a.invoice_link = Null
                /\ a.fee_link \in 1..Len(a.fees)) =>
                  out.result = "ok"

\* a payment intent linked to both an invoice and an existing fee has been
\* refused
C37_Witness ==
    /\ IntentDone
    /\ calc.args.intent /\ calc.args.db_ok /\ calc.args.invoice_exists
    /\ calc.args.invoice_link = 1 /\ calc.args.fee_link = 1
    /\ Len(calc.args.fees) = 2 /\ Len(calc.args.orders) = 2
    /\ calc.out.result = "Internal"

\* C38: the step that marks an invoice paid sets final_amount_paid to the
\* total price of that moment in buyer minor units, which is not more than
\* the amount captured, and final_cashback_amount to the total cashback in
\* STQ minor units, 0 when no order has a cashback; no later step, a
\* further capture included, changes final_amount_paid.
C38_FinalAmount ==
    [][\A i \in InvoiceIds :
          /\ (invoices[i].exists /\ invoices[i].paid_at = Null
                 /\ invoices'[i].paid_at # Null)
              => /\ invoices'[i].final_amount_paid =
                       FromSuperUnit(invoices[i].buyer_currency, TotalPrice(i))
                 /\ invoices'[i].final_amount_paid <= invoices[i].amount_captured
                 /\ invoices'[i].amount_captured = invoices[i].amount_captured
                 /\ invoices'[i].final_cashback_amount =
                       FromSuperUnit("STQ", TotalCashback(i))
                 /\ (\A o \in OrdersOf(i) : orders[o].cashback_amount = 0)
                       => invoices'[i].final_cashback_amount = 0
          /\ (invoices[i].exists /\ invoices[i].paid_at # Null
                 /\ invoices'[i].exists)
              => invoices'[i].final_amount_paid = invoices[i].final_amount_paid
       ]_vars

\* an invoice was paid by one capture of more than its total and a second
\* capture was credited after it: the final amount is the total
C38_Witness ==
    \E i \in InvoiceIds :
        /\ invoices[i].exists /\ invoices[i].paid_at # Null
        /\ Cardinality(txs) = 2
        /\ invoices[i].final_amount_paid =
              FromSuperUnit(invoices[i].buyer_currency, TotalPrice(i))
        /\ invoices[i].amount_captured >= 2 * invoices[i].final_amount_paid
        /\ invoices[i].final_cashback_amount > 0
        /\ \E x \in txs : x.amount > invoices[i].final_amount_paid

\* C39: the DB session of a delete of an invoice that has no link to a
\* payment intent answers Internal and changes no row: the invoice, its
\* orders and their rates are all still there, and the request ends without
\* the cancel step at the card PSP.
C39_DeleteUnlinked ==
    [][\A t \in Tasks, i \in InvoiceIds, db_ok \in BOOLEAN :
          (DeleteTx(t, i, db_ok) /\ invoices[i].exists
             /\ IntentsOfInvoice(i) = {})
          => /\ UNCHANGED ledger
             /\ invoices'[i].exists
             /\ \A o \in OrdersOf(i) : orders'[o].exists /\ rates'[o] # <<>>
             /\ OrdersOf(i)' = OrdersOf(i)
             /\ reply' = [op |-> "delete", path |-> "none",
                          result |-> "Internal"]
             /\ task'[t].pc = "done"
             /\ \A u \in Tasks : task'[u].pc # "cancel" \/ task[u].pc = "cancel"
       ]_vars

\* the delete of a crypto-flow invoice has failed: the invoice holds its
\* pooled account, its order and the rate of the order
C39_Witness ==
    /\ reply = [op |-> "delete", path |-> "none", result |-> "Internal"]
    /\ intents = {}
    /\ \A t \in Tasks : task[t].pc = "done"
    /\ \E i \in InvoiceIds :
          /\ invoices[i].exists /\ invoices[i].account_id # Null
          /\ ~IsFiat(invoices[i].buyer_currency)
          /\ OrdersOf(i) # {}
          /\ \A o \in OrdersOf(i) : rates[o] # <<>>

====
